---- MODULE Spec2Model ----
(***************************************************************************)
(* A model of the qoboy Game Boy emulator core: the interrupt controller   *)
(* (src/soc/nvic.rs), the peripheral bus with its OAM DMA engine           *)
(* (src/soc/peripheral/mod.rs) and the frame loop (src/emulator.rs).       *)
(***************************************************************************)
EXTENDS Integers, Sequences, FiniteSets, TLC

VARIABLES
    peripheral,  \* the Peripheral struct (bus memories, gpu, nvic, dma fields)
    emulator,    \* the Emulator struct (state, cycles_elapsed_in_frame, frame_tick)
    clock,       \* the last reading of the monotonic clock (Instant::now)
    call,        \* history: the last operation called, its arguments and its result
    drain,       \* history: the get_interrupt results since the last change of IE/IF
    bus_obs,     \* history: whether 0xFF50 was written; cycles run since the last 0xFF46 write
    frame_obs,   \* history: Soc::run calls and cycles of the frame, DisplayFrame entries
    dbg_ctx,     \* the DebugCtx shared by the emulator loop and the CLI thread
    dbg_obs      \* history: the commands posted and not yet due, the last command popped

vars == <<peripheral, emulator, clock, call, drain, bus_obs, frame_obs, dbg_ctx, dbg_obs>>

(***************************************************************************)
(* u8 arithmetic                                                           *)
(***************************************************************************)
Bit(x, i) == (x \div (2 ^ i)) % 2

RECURSIVE AndBits(_, _, _)
AndBits(x, y, i) ==
    IF i > 7 THEN 0
    ELSE Bit(x, i) * Bit(y, i) * (2 ^ i) + AndBits(x, y, i + 1)

\* x & y
BitAnd(x, y) == AndBits(x, y, 0)

\* x | y
BitOr(x, y) == x + y - BitAnd(x, y)

\* !x
BitNot(x) == 255 - x

\* (x as u8) << n
Shl(x, n) == (x * (2 ^ n)) % 256

(***************************************************************************)
(* src/soc/nvic.rs                                                         *)
(***************************************************************************)
InterruptSources == {"VBLANK", "STAT", "TIMER", "SERIAL", "JOYPAD"}

\* `source as u8`: the discriminant of the enum variant
SourceAsU8(source) ==
    CASE source = "VBLANK" -> 0
      [] source = "STAT"   -> 1
      [] source = "TIMER"  -> 2
      [] source = "SERIAL" -> 3
      [] source = "JOYPAD" -> 4

FIRST_INTERRUPT_SOURCE == SourceAsU8("VBLANK")
LAST_INTERRUPT_SOURCE == SourceAsU8("JOYPAD")

Nvic_new ==
    [interrupt_master_enable |-> FALSE,
     interrupt_enable        |-> 0,
     interrupt_flag          |-> 0]

master_enable(self, enable) ==
    [self EXCEPT !.interrupt_master_enable = enable]

\* enabling assigns the mask instead of or-ing it into IE
enable_interrupt_assign(self, source, enable) ==
    IF enable
    THEN [self EXCEPT !.interrupt_enable = Shl(1, SourceAsU8(source))]
    ELSE [self EXCEPT !.interrupt_enable =
            BitAnd(@, BitNot(Shl(1, SourceAsU8(source))))]

enable_interrupt(self, source, enable) ==
    IF enable
    THEN [self EXCEPT !.interrupt_enable = BitOr(@, Shl(1, SourceAsU8(source)))]
    ELSE [self EXCEPT !.interrupt_enable = BitAnd(@, BitNot(Shl(1, SourceAsU8(source))))]

\* the flag is stored as it reads on the bus, with the upper three bits set
set_interrupt_with_high_bits(self, source) ==
    [self EXCEPT !.interrupt_flag = BitOr(BitOr(@, Shl(1, SourceAsU8(source))), 224)]

set_interrupt(self, source) ==
    [self EXCEPT !.interrupt_flag = BitOr(@, Shl(1, SourceAsU8(source)))]

\* the match on `1 << interrupt_index` of get_interrupt
SourceOfMask(mask) ==
    CASE mask = 1  -> "VBLANK"
      [] mask = 2  -> "STAT"
      [] mask = 4  -> "TIMER"
      [] mask = 8  -> "SERIAL"
      [] mask = 16 -> "JOYPAD"
      [] OTHER     -> "PANIC"

\* one iteration of the for loop of get_interrupt, from interrupt_index on
RECURSIVE get_interrupt_loop(_, _)
get_interrupt_loop(self, interrupt_index) ==
    IF interrupt_index > LAST_INTERRUPT_SOURCE
    THEN [nvic |-> self, ret |-> "None"]
    ELSE IF BitAnd(BitAnd(self.interrupt_enable, self.interrupt_flag),
                   Shl(1, interrupt_index)) # 0
         THEN [nvic |-> [self EXCEPT !.interrupt_flag =
                                         BitAnd(@, BitNot(Shl(1, interrupt_index)))],
               ret  |-> SourceOfMask(Shl(1, interrupt_index))]
         ELSE get_interrupt_loop(self, interrupt_index + 1)

\* a scan from JOYPAD downwards: the highest bit index wins
RECURSIVE get_interrupt_loop_down(_, _)
get_interrupt_loop_down(self, interrupt_index) ==
    IF interrupt_index < FIRST_INTERRUPT_SOURCE
    THEN [nvic |-> self, ret |-> "None"]
    ELSE IF BitAnd(BitAnd(self.interrupt_enable, self.interrupt_flag),
                   Shl(1, interrupt_index)) # 0
         THEN [nvic |-> [self EXCEPT !.interrupt_flag =
                                         BitAnd(@, BitNot(Shl(1, interrupt_index)))],
               ret  |-> SourceOfMask(Shl(1, interrupt_index))]
         ELSE get_interrupt_loop_down(self, interrupt_index - 1)

get_interrupt_highest_first(self) ==
    get_interrupt_loop_down(self, LAST_INTERRUPT_SOURCE)

\* the flag of the source found is cleared together with every lower-priority flag
get_interrupt_clear_all(self) ==
    LET r == get_interrupt_loop(self, FIRST_INTERRUPT_SOURCE)
    IN  IF r.ret = "None" THEN r
        ELSE [r EXCEPT !.nvic.interrupt_flag = 0]

get_interrupt(self) == get_interrupt_loop(self, FIRST_INTERRUPT_SOURCE)

is_an_interrupt_pending_flag_only(self) == self.interrupt_flag # 0

is_an_interrupt_pending(self) ==
    IF BitAnd(self.interrupt_enable, self.interrupt_flag) # 0 THEN TRUE ELSE FALSE

is_an_interrupt_to_run(self) ==
    IF self.interrupt_master_enable
    THEN IF is_an_interrupt_pending(self) THEN TRUE ELSE FALSE
    ELSE FALSE

from_byte(self, data) == [self EXCEPT !.interrupt_enable = data]

\* the upper bits are not forced to 1
to_byte_raw(self) == self.interrupt_enable

to_byte(self) == BitOr(224, self.interrupt_enable)

(***************************************************************************)
(* src/soc/peripheral/mod.rs: the memory map                               *)
(***************************************************************************)
BOOT_ROM_BEGIN == 0                  \* 0x0000
BOOT_ROM_END == 255                  \* 0x00FF
ROM_BANK_0_BEGIN == 0                \* 0x0000
ROM_BANK_0_END == 16383              \* 0x3FFF
ROM_BANK_N_BEGIN == 16384            \* 0x4000
ROM_BANK_N_END == 32767              \* 0x7FFF
VRAM_BEGIN == 32768                  \* 0x8000
VRAM_END == 40959                    \* 0x9FFF
EXTERNAL_RAM_BEGIN == 40960          \* 0xA000
EXTERNAL_RAM_END == 49151            \* 0xBFFF
WORKING_RAM_BEGIN == 49152           \* 0xC000
WORKING_RAM_END == 57343             \* 0xDFFF
ECHO_RAM_BEGIN == 57344              \* 0xE000
ECHO_RAM_END == 65023                \* 0xFDFF
OAM_BEGIN == 65024                   \* 0xFE00
OAM_END == 65183                     \* 0xFE9F
OAM_SIZE == OAM_END - OAM_BEGIN + 1
UNUSED_BEGIN == 65184                \* 0xFEA0
UNUSED_END == 65279                  \* 0xFEFF
IO_REGISTERS_BEGIN == 65280          \* 0xFF00
IO_REGISTERS_END == 65407            \* 0xFF7F
ZERO_PAGE_BEGIN == 65408             \* 0xFF80
ZERO_PAGE_END == 65534               \* 0xFFFE
INTERRUPT_ENABLE_REGISTER == 65535   \* 0xFFFF

\* the value returned where the source panics
PANIC == 0 - 1

\* the reset value of working_ram and zero_page ([0xFF; SIZE])
RAM_RESET == 255

(***************************************************************************)
(* A byte array that starts filled with one value is kept as the function  *)
(* of the cells that differ from that value.                               *)
(***************************************************************************)
ArrayRead(array, index, reset) ==
    IF index \in DOMAIN array THEN array[index] ELSE reset

ArrayWrite(array, index, data, reset) ==
    IF data = reset
    THEN [i \in (DOMAIN array) \ {index} |-> array[i]]
    ELSE [i \in (DOMAIN array) \cup {index} |-> IF i = index THEN data ELSE array[i]]

EmptyArray == [i \in {} |-> 0]

(***************************************************************************)
(* Collaborators whose source is not part of the covered files: the boot   *)
(* ROM shim, the cartridge, the GPU memories, the device registers.        *)
(***************************************************************************)
\* the 256 bytes given to Peripheral::load_bootrom
boot_rom_image(address) == address % 128

\* the cartridge ROM given to Cartridge::new
rom_image(address) == 128 + (address % 128)

BootRom_new == [state |-> TRUE]

BootRom_get_state(boot_rom) == boot_rom.state

BootRom_set_state(boot_rom, state) == [boot_rom EXCEPT !.state = state]

BootRom_read(boot_rom, address) == boot_rom_image(address)

\* a cartridge without memory bank controller and without RAM
Cartridge_read_bank_0(address) == rom_image(address)

Cartridge_read_bank_n(address) == rom_image(address)

Cartridge_read_ram(address) == 255

Gpu_new ==
    [oam  |-> EmptyArray,
     vram |-> EmptyArray]

Gpu_read_vram(gpu, address) == ArrayRead(gpu.vram, address, RAM_RESET)

Gpu_write_vram(gpu, address, data) ==
    [gpu EXCEPT !.vram = ArrayWrite(@, address, data, RAM_RESET)]

\* the reset value of the OAM bytes
OAM_RESET == 0

Gpu_read_oam(gpu, index) == ArrayRead(gpu.oam, index, OAM_RESET)

Gpu_write_oam(gpu, index, data) ==
    [gpu EXCEPT !.oam = ArrayWrite(@, index, data, OAM_RESET)]

\* the registers of keypad, timer and gpu, all 0 at reset, keyed by bus address
DeviceGet(self, address) == ArrayRead(self.registers, address, 0)

DeviceSet(self, address, data) ==
    [self EXCEPT !.registers = ArrayWrite(@, address, data, 0)]

\* IF as seen on the bus: the upper three bits read as 1
Nvic_get_it_flag(nvic) == BitOr(224, nvic.interrupt_flag)

Nvic_set_it_flag(nvic, data) == [nvic EXCEPT !.interrupt_flag = data]

\* IE as seen on the bus: the byte conversions of Nvic
Nvic_get_it_enable(nvic) == to_byte(nvic)

Nvic_set_it_enable(nvic, data) == from_byte(nvic, data)

\* Timer::run raises TIMER when TIMA overflowed during these cycles
Timer_run(self, runned_cycles, tima_overflow) ==
    IF tima_overflow
    THEN [self EXCEPT !.nvic = set_interrupt(@, "TIMER")]
    ELSE self

\* Gpu::run raises VBLANK and STAT at the mode changes of these cycles
RECURSIVE Gpu_run(_, _, _)
Gpu_run(self, runned_cycles, raised) ==
    IF raised = {} THEN self
    ELSE LET s == CHOOSE x \in raised : TRUE
         IN  Gpu_run([self EXCEPT !.nvic = set_interrupt(@, s)],
                     runned_cycles, raised \ {s})

Cartridge_run(self, runned_cycles) == self

(***************************************************************************)
(* src/soc/peripheral/mod.rs: Peripheral                                   *)
(***************************************************************************)
Peripheral_new ==
    [boot_rom         |-> BootRom_new,
     working_ram      |-> EmptyArray,
     zero_page        |-> EmptyArray,
     gpu              |-> Gpu_new,
     nvic             |-> Nvic_new,
     registers        |-> EmptyArray,
     dma_cycles       |-> 0,
     dma_start_adress |-> 65535,
     dma_enabled      |-> FALSE,
     panicked         |-> FALSE]

\* the addresses of read_io_register that return 0xFF whatever the state
ReadsAsFF(address) ==
    \/ address \in 65296 .. 65300      \* 0xFF10 ..= 0xFF14
    \/ address \in 65302 .. 65310      \* 0xFF16 ..= 0xFF1E
    \/ address \in 65312 .. 65318      \* 0xFF20 ..= 0xFF26
    \/ address \in 65328 .. 65343      \* 0xFF30 ..= 0xFF3F
    \/ address \in {65357, 65352, 65353} \* 0xFF4D, 0xFF48, 0xFF49

read_io_register(self, address) ==
    CASE address = 65280 -> DeviceGet(self, address)               \* 0xFF00 keypad
      [] address \in {65281, 65282} -> 0                           \* 0xFF01, 0xFF02
      [] address \in 65284 .. 65286 -> DeviceGet(self, address)    \* 0xFF04 ..= 0xFF06
      [] address = 65295 -> Nvic_get_it_flag(self.nvic)            \* 0xFF0F
      [] ReadsAsFF(address) -> 255
      [] address \in 65344 .. 65349 -> DeviceGet(self, address)    \* 0xFF40 ..= 0xFF45
      [] address \in {65354, 65355} -> DeviceGet(self, address)    \* 0xFF4A, 0xFF4B
      [] OTHER -> PANIC

\* the addresses of write_io_register whose arm is empty
WriteIgnored(address) ==
    \/ address \in {65281, 65282}      \* 0xFF01, 0xFF02
    \/ address \in 65296 .. 65300      \* 0xFF10 ..= 0xFF14
    \/ address \in 65302 .. 65310      \* 0xFF16 ..= 0xFF1E
    \/ address \in 65312 .. 65318      \* 0xFF20 ..= 0xFF26
    \/ address \in 65328 .. 65343      \* 0xFF30 ..= 0xFF3F
    \/ address = 65407                 \* 0xFF7F

\* 0xFF50 disables the boot ROM only when the data written is not zero
write_io_register_nonzero_only(self, address, data) ==
    CASE address = 65280 -> DeviceSet(self, address, data)
      [] address = 65284 -> DeviceSet(self, address, 0)
      [] address \in 65285 .. 65287 -> DeviceSet(self, address, data)
      [] address = 65295 -> [self EXCEPT !.nvic = Nvic_set_it_flag(@, data)]
      [] WriteIgnored(address) -> self
      [] address \in 65344 .. 65347 -> DeviceSet(self, address, data)
      [] address = 65349 -> DeviceSet(self, address, data)
      [] address = 65350 ->
            [self EXCEPT !.dma_start_adress = (data * 256) % 65536,
                         !.dma_enabled = TRUE]
      [] address \in 65351 .. 65355 -> DeviceSet(self, address, data)
      [] address = 65360 ->
            IF data # 0
            THEN [self EXCEPT !.boot_rom = BootRom_set_state(@, FALSE)]
            ELSE self
      [] OTHER -> [self EXCEPT !.panicked = TRUE]

write_io_register(self, address, data) ==
    CASE address = 65280 -> DeviceSet(self, address, data)           \* 0xFF00
      [] address = 65284 -> DeviceSet(self, address, 0)              \* 0xFF04 set_divider()
      [] address \in 65285 .. 65287 -> DeviceSet(self, address, data) \* 0xFF05 ..= 0xFF07
      [] address = 65295 -> [self EXCEPT !.nvic = Nvic_set_it_flag(@, data)] \* 0xFF0F
      [] WriteIgnored(address) -> self
      [] address \in 65344 .. 65347 -> DeviceSet(self, address, data) \* 0xFF40 ..= 0xFF43
      [] address = 65349 -> DeviceSet(self, address, data)           \* 0xFF45
      [] address = 65350 ->                                          \* 0xFF46
            [self EXCEPT !.dma_start_adress = (data * 256) % 65536,
                         !.dma_enabled = TRUE]
      [] address \in 65351 .. 65355 -> DeviceSet(self, address, data) \* 0xFF47 ..= 0xFF4B
      [] address = 65360 ->                                          \* 0xFF50
            [self EXCEPT !.boot_rom = BootRom_set_state(@, FALSE)]
      [] OTHER -> [self EXCEPT !.panicked = TRUE]

\* the echo range indexes working_ram from WORKING_RAM_BEGIN: past the array
read_echo_unmirrored(self, address) ==
    CASE address \in ROM_BANK_0_BEGIN .. ROM_BANK_0_END ->
            IF address \in BOOT_ROM_BEGIN .. BOOT_ROM_END
            THEN IF BootRom_get_state(self.boot_rom)
                 THEN BootRom_read(self.boot_rom, address)
                 ELSE Cartridge_read_bank_0(address)
            ELSE Cartridge_read_bank_0(address)
      [] address \in ROM_BANK_N_BEGIN .. ROM_BANK_N_END -> Cartridge_read_bank_n(address)
      [] address \in VRAM_BEGIN .. VRAM_END -> Gpu_read_vram(self.gpu, address - VRAM_BEGIN)
      [] address \in EXTERNAL_RAM_BEGIN .. EXTERNAL_RAM_END -> Cartridge_read_ram(address)
      [] address \in WORKING_RAM_BEGIN .. WORKING_RAM_END ->
            ArrayRead(self.working_ram, address - WORKING_RAM_BEGIN, RAM_RESET)
      [] address \in ECHO_RAM_BEGIN .. ECHO_RAM_END ->
            IF address - WORKING_RAM_BEGIN > WORKING_RAM_END - WORKING_RAM_BEGIN
            THEN PANIC
            ELSE ArrayRead(self.working_ram, address - WORKING_RAM_BEGIN, RAM_RESET)
      [] address \in OAM_BEGIN .. OAM_END -> Gpu_read_oam(self.gpu, address - OAM_BEGIN)
      [] address \in IO_REGISTERS_BEGIN .. IO_REGISTERS_END -> read_io_register(self, address)
      [] address \in UNUSED_BEGIN .. UNUSED_END -> 0
      [] address \in ZERO_PAGE_BEGIN .. ZERO_PAGE_END ->
            ArrayRead(self.zero_page, address - ZERO_PAGE_BEGIN, RAM_RESET)
      [] address = INTERRUPT_ENABLE_REGISTER -> Nvic_get_it_enable(self.nvic)

read(self, address) ==
    CASE address \in ROM_BANK_0_BEGIN .. ROM_BANK_0_END ->
            IF address \in BOOT_ROM_BEGIN .. BOOT_ROM_END
            THEN IF BootRom_get_state(self.boot_rom)
                 THEN BootRom_read(self.boot_rom, address)
                 ELSE Cartridge_read_bank_0(address)
            ELSE Cartridge_read_bank_0(address)
      [] address \in ROM_BANK_N_BEGIN .. ROM_BANK_N_END -> Cartridge_read_bank_n(address)
      [] address \in VRAM_BEGIN .. VRAM_END -> Gpu_read_vram(self.gpu, address - VRAM_BEGIN)
      [] address \in EXTERNAL_RAM_BEGIN .. EXTERNAL_RAM_END -> Cartridge_read_ram(address)
      [] address \in WORKING_RAM_BEGIN .. WORKING_RAM_END ->
            ArrayRead(self.working_ram, address - WORKING_RAM_BEGIN, RAM_RESET)
      [] address \in ECHO_RAM_BEGIN .. ECHO_RAM_END ->
            ArrayRead(self.working_ram, address - ECHO_RAM_BEGIN, RAM_RESET)
      [] address \in OAM_BEGIN .. OAM_END -> Gpu_read_oam(self.gpu, address - OAM_BEGIN)
      [] address \in IO_REGISTERS_BEGIN .. IO_REGISTERS_END -> read_io_register(self, address)
      [] address \in UNUSED_BEGIN .. UNUSED_END -> 0
      [] address \in ZERO_PAGE_BEGIN .. ZERO_PAGE_END ->
            ArrayRead(self.zero_page, address - ZERO_PAGE_BEGIN, RAM_RESET)
      [] address = INTERRUPT_ENABLE_REGISTER -> Nvic_get_it_enable(self.nvic)

\* the work RAM index wraps at the size of one 4 KiB bank
write_ram_wrapped(self, address, data) ==
    CASE address \in ROM_BANK_0_BEGIN .. ROM_BANK_0_END -> self
      [] address \in ROM_BANK_N_BEGIN .. ROM_BANK_N_END -> self
      [] address \in VRAM_BEGIN .. VRAM_END ->
            [self EXCEPT !.gpu = Gpu_write_vram(@, address - VRAM_BEGIN, data)]
      [] address \in EXTERNAL_RAM_BEGIN .. EXTERNAL_RAM_END -> self
      [] address \in WORKING_RAM_BEGIN .. WORKING_RAM_END ->
            [self EXCEPT !.working_ram =
                ArrayWrite(@, (address - WORKING_RAM_BEGIN) % 4096, data, RAM_RESET)]
      [] address \in ECHO_RAM_BEGIN .. ECHO_RAM_END ->
            [self EXCEPT !.working_ram =
                ArrayWrite(@, address - ECHO_RAM_BEGIN, data, RAM_RESET)]
      [] address \in OAM_BEGIN .. OAM_END ->
            [self EXCEPT !.gpu = Gpu_write_oam(@, address - OAM_BEGIN, data)]
      [] address \in IO_REGISTERS_BEGIN .. IO_REGISTERS_END ->
            write_io_register(self, address, data)
      [] address \in UNUSED_BEGIN .. UNUSED_END -> self
      [] address \in ZERO_PAGE_BEGIN .. ZERO_PAGE_END ->
            [self EXCEPT !.zero_page =
                ArrayWrite(@, address - ZERO_PAGE_BEGIN, data, RAM_RESET)]
      [] address = INTERRUPT_ENABLE_REGISTER ->
            [self EXCEPT !.nvic = Nvic_set_it_enable(@, data)]

write(self, address, data) ==
    CASE address \in ROM_BANK_0_BEGIN .. ROM_BANK_0_END -> self
      [] address \in ROM_BANK_N_BEGIN .. ROM_BANK_N_END -> self
      [] address \in VRAM_BEGIN .. VRAM_END ->
            [self EXCEPT !.gpu = Gpu_write_vram(@, address - VRAM_BEGIN, data)]
      [] address \in EXTERNAL_RAM_BEGIN .. EXTERNAL_RAM_END -> self
      [] address \in WORKING_RAM_BEGIN .. WORKING_RAM_END ->
            [self EXCEPT !.working_ram =
                ArrayWrite(@, address - WORKING_RAM_BEGIN, data, RAM_RESET)]
      [] address \in ECHO_RAM_BEGIN .. ECHO_RAM_END ->
            [self EXCEPT !.working_ram =
                ArrayWrite(@, address - ECHO_RAM_BEGIN, data, RAM_RESET)]
      [] address \in OAM_BEGIN .. OAM_END ->
            [self EXCEPT !.gpu = Gpu_write_oam(@, address - OAM_BEGIN, data)]
      [] address \in IO_REGISTERS_BEGIN .. IO_REGISTERS_END ->
            write_io_register(self, address, data)
      [] address \in UNUSED_BEGIN .. UNUSED_END -> self
      [] address \in ZERO_PAGE_BEGIN .. ZERO_PAGE_END ->
            [self EXCEPT !.zero_page =
                ArrayWrite(@, address - ZERO_PAGE_BEGIN, data, RAM_RESET)]
      [] address = INTERRUPT_ENABLE_REGISTER ->
            [self EXCEPT !.nvic = Nvic_set_it_enable(@, data)]

\* u8 + u8: a build with overflow checks panics past 255, the others wrap
U8Add(a, b, overflow_checks) ==
    IF a + b > 255
    THEN IF overflow_checks THEN PANIC ELSE (a + b) % 256
    ELSE a + b

\* the `for mem_index in 0..runned_cycles` loop of run, from mem_index on
RECURSIVE dma_copy(_, _, _, _)
dma_copy(self, runned_cycles, mem_index, overflow_checks) ==
    IF mem_index >= runned_cycles \/ self.panicked
    THEN self
    ELSE LET offset == U8Add(self.dma_cycles, mem_index, overflow_checks)
         IN  IF offset = PANIC
             THEN [self EXCEPT !.panicked = TRUE]
             ELSE IF offset < OAM_SIZE
                  THEN LET data == read(self, self.dma_start_adress + offset)
                       IN  IF data = PANIC
                           THEN [self EXCEPT !.panicked = TRUE]
                           ELSE dma_copy(
                                  [self EXCEPT !.gpu = Gpu_write_oam(@, offset, data)],
                                  runned_cycles, mem_index + 1, overflow_checks)
                  ELSE dma_copy(self, runned_cycles, mem_index + 1, overflow_checks)

\* the end-of-transfer test uses > instead of >=
dma_run_late_end(self, runned_cycles, overflow_checks) ==
    IF self.dma_enabled
    THEN LET copied == dma_copy(self, runned_cycles, 0, overflow_checks)
             cycles == U8Add(self.dma_cycles, runned_cycles, overflow_checks)
         IN  IF copied.panicked \/ cycles = PANIC
             THEN [copied EXCEPT !.panicked = TRUE]
             ELSE IF cycles > OAM_SIZE
                  THEN [copied EXCEPT !.dma_enabled = FALSE, !.dma_cycles = 0]
                  ELSE [copied EXCEPT !.dma_cycles = cycles]
    ELSE self

\* the offset counter is not reset when the transfer ends
dma_run_keep_offset(self, runned_cycles, overflow_checks) ==
    IF self.dma_enabled
    THEN LET copied == dma_copy(self, runned_cycles, 0, overflow_checks)
             cycles == U8Add(self.dma_cycles, runned_cycles, overflow_checks)
         IN  IF copied.panicked \/ cycles = PANIC
             THEN [copied EXCEPT !.panicked = TRUE]
             ELSE IF cycles >= OAM_SIZE
                  THEN [copied EXCEPT !.dma_enabled = FALSE, !.dma_cycles = cycles]
                  ELSE [copied EXCEPT !.dma_cycles = cycles]
    ELSE self

\* the `if self.dma_enabled` block of run
dma_run(self, runned_cycles, overflow_checks) ==
    IF self.dma_enabled
    THEN LET copied == dma_copy(self, runned_cycles, 0, overflow_checks)
             cycles == U8Add(self.dma_cycles, runned_cycles, overflow_checks)
         IN  IF copied.panicked \/ cycles = PANIC
             THEN [copied EXCEPT !.panicked = TRUE]
             ELSE IF cycles >= OAM_SIZE
                  THEN [copied EXCEPT !.dma_enabled = FALSE, !.dma_cycles = 0]
                  ELSE [copied EXCEPT !.dma_cycles = cycles]
    ELSE self

\* Peripheral::run with the GPU run before the DMA block
Peripheral_run_steps_gpu_first(self, runned_cycles, env) ==
    LET timed == Timer_run(self, runned_cycles, env.tima_overflow)
        drawn == Gpu_run(timed, runned_cycles, env.gpu_raised)
        moved == dma_run(drawn, runned_cycles, env.overflow_checks)
        done  == Cartridge_run(moved, runned_cycles)
    IN  <<[device |-> "timer", cycles |-> runned_cycles, after |-> timed],
          [device |-> "gpu", cycles |-> runned_cycles, after |-> drawn],
          [device |-> "dma", cycles |-> runned_cycles, after |-> moved]>>
        \o (IF moved.panicked THEN <<>>
            ELSE <<[device |-> "cartridge", cycles |-> runned_cycles, after |-> done]>>)

\* Peripheral::run, statement by statement: the device run, the cycle count it
\* is given and the peripheral after it.  env holds what the collaborators do
\* during these cycles and the build's overflow checks.  A panic in the DMA
\* block ends the call there.
Peripheral_run_steps(self, runned_cycles, env) ==
    LET timed == Timer_run(self, runned_cycles, env.tima_overflow)
        moved == dma_run(timed, runned_cycles, env.overflow_checks)
        drawn == Gpu_run(moved, runned_cycles, env.gpu_raised)
        done  == Cartridge_run(drawn, runned_cycles)
    IN  <<[device |-> "timer", cycles |-> runned_cycles, after |-> timed],
          [device |-> "dma", cycles |-> runned_cycles, after |-> moved]>>
        \o (IF moved.panicked THEN <<>>
            ELSE <<[device |-> "gpu", cycles |-> runned_cycles, after |-> drawn],
                   [device |-> "cartridge", cycles |-> runned_cycles, after |-> done]>>)

\* Peripheral::run: timer, DMA, GPU, cartridge, in this order
Peripheral_run(self, runned_cycles, env) ==
    LET steps == Peripheral_run_steps(self, runned_cycles, env)
    IN  steps[Len(steps)].after

(***************************************************************************)
(* src/emulator.rs                                                         *)
(***************************************************************************)
ONE_SECOND_IN_MICROS == 1000000000
ONE_SECOND_IN_CYCLES == 4194304
ONE_FRAME_IN_CYCLES == 70224

\* the quotient and remainder of a * b by c, as 64-bit usize arithmetic gives
\* them, computed without a product above 2 * c
RECURSIVE MulDiv(_, _, _)
MulDiv(a, b, c) ==
    IF a = 0
    THEN [q |-> 0, r |-> 0]
    ELSE LET h  == MulDiv(a \div 2, b, c)
             dq == 2 * h.q + (2 * h.r) \div c
             dr == (2 * h.r) % c
         IN  IF a % 2 = 0
             THEN [q |-> dq, r |-> dr]
             ELSE [q |-> dq + (b \div c) + ((dr + (b % c)) \div c),
                   r |-> (dr + (b % c)) % c]

ONE_FRAME_IN_NS ==
    MulDiv(ONE_FRAME_IN_CYCLES, ONE_SECOND_IN_MICROS, ONE_SECOND_IN_CYCLES).q

EmulatorState == {"GetTime", "RunMachine", "WaitNextFrame", "DisplayFrame"}

\* Emulator::new, with `now` the reading of Instant::now()
Emulator_new(now) ==
    [state                   |-> "GetTime",
     cycles_elapsed_in_frame |-> 0,
     frame_tick              |-> now,
     debugger_state          |-> "HALT",
     display_cpu_reg         |-> TRUE]

\* the frame ends only when the counter exceeds ONE_FRAME_IN_CYCLES
step_strictly_above(self, soc_cycles) ==
    LET cycles == self.cycles_elapsed_in_frame + soc_cycles
    IN  IF cycles > ONE_FRAME_IN_CYCLES
        THEN [self EXCEPT !.cycles_elapsed_in_frame = 0, !.state = "WaitNextFrame"]
        ELSE [self EXCEPT !.cycles_elapsed_in_frame = cycles]

\* the counter keeps its value when the frame ends
step_no_reset(self, soc_cycles) ==
    LET cycles == self.cycles_elapsed_in_frame + soc_cycles
    IN  IF cycles >= ONE_FRAME_IN_CYCLES
        THEN [self EXCEPT !.cycles_elapsed_in_frame = cycles, !.state = "WaitNextFrame"]
        ELSE [self EXCEPT !.cycles_elapsed_in_frame = cycles]

\* the cycles above ONE_FRAME_IN_CYCLES are carried into the next frame
step_carry_overshoot(self, soc_cycles) ==
    LET cycles == self.cycles_elapsed_in_frame + soc_cycles
    IN  IF cycles >= ONE_FRAME_IN_CYCLES
        THEN [self EXCEPT !.cycles_elapsed_in_frame = cycles - ONE_FRAME_IN_CYCLES,
                          !.state = "WaitNextFrame"]
        ELSE [self EXCEPT !.cycles_elapsed_in_frame = cycles]

\* the counter is reset at the end of the frame but the state is not advanced
step_no_advance(self, soc_cycles) ==
    LET cycles == self.cycles_elapsed_in_frame + soc_cycles
    IN  IF cycles >= ONE_FRAME_IN_CYCLES
        THEN [self EXCEPT !.cycles_elapsed_in_frame = 0]
        ELSE [self EXCEPT !.cycles_elapsed_in_frame = cycles]

\* Emulator::step, with soc_cycles the value returned by self.soc.run()
step(self, soc_cycles) ==
    LET cycles == self.cycles_elapsed_in_frame + soc_cycles
    IN  IF cycles >= ONE_FRAME_IN_CYCLES
        THEN [self EXCEPT !.cycles_elapsed_in_frame = 0, !.state = "WaitNextFrame"]
        ELSE [self EXCEPT !.cycles_elapsed_in_frame = cycles]

frame_ready(self) == IF self.state = "DisplayFrame" THEN TRUE ELSE FALSE

\* WaitNextFrame does not wait: it goes to DisplayFrame at once
run_normal_mode_no_wait(self, now, soc_cycles) ==
    CASE self.state = "GetTime" ->
            [self EXCEPT !.frame_tick = now, !.state = "RunMachine"]
      [] self.state = "RunMachine" -> step(self, soc_cycles)
      [] self.state = "WaitNextFrame" -> [self EXCEPT !.state = "DisplayFrame"]
      [] self.state = "DisplayFrame" -> [self EXCEPT !.state = "GetTime"]

\* DisplayFrame goes straight to RunMachine, without a new time snapshot
run_normal_mode_skip_get_time(self, now, soc_cycles) ==
    CASE self.state = "GetTime" ->
            [self EXCEPT !.frame_tick = now, !.state = "RunMachine"]
      [] self.state = "RunMachine" -> step(self, soc_cycles)
      [] self.state = "WaitNextFrame" ->
            IF now - self.frame_tick >= ONE_FRAME_IN_NS
            THEN [self EXCEPT !.state = "DisplayFrame"]
            ELSE self
      [] self.state = "DisplayFrame" -> [self EXCEPT !.state = "RunMachine"]

\* run_normal_mode, with `now` the clock reading behind Instant::now() and
\* frame_tick.elapsed(), and soc_cycles the value returned by Soc::run
run_normal_mode(self, now, soc_cycles) ==
    CASE self.state = "GetTime" ->
            [self EXCEPT !.frame_tick = now, !.state = "RunMachine"]
      [] self.state = "RunMachine" -> step(self, soc_cycles)
      [] self.state = "WaitNextFrame" ->
            IF now - self.frame_tick >= ONE_FRAME_IN_NS
            THEN [self EXCEPT !.state = "DisplayFrame"]
            ELSE self
      [] self.state = "DisplayFrame" -> [self EXCEPT !.state = "GetTime"]

(***************************************************************************)
(* src/debug.rs                                                            *)
(***************************************************************************)
DebuggerCommand == {"HALT", "RUN", "STEP"}

DebuggerState == {"HALT", "RUN", "STEP"}

\* DebugCtx::new
DebugCtx_new ==
    [cmd                |-> <<>>,
     breakpoint         |-> 0,
     break_enabled      |-> FALSE,
     debugger_state     |-> "HALT",
     display_cpu_reg    |-> TRUE,
     vram_viewer_buffer |-> EmptyArray]

\* Vec::push appends at the end
Vec_push(vec, value) == Append(vec, value)

\* Vec::pop removes the last element and returns it, or None when empty
Vec_pop(vec) ==
    IF Len(vec) = 0
    THEN [vec |-> vec, ret |-> "None"]
    ELSE [vec |-> SubSeq(vec, 1, Len(vec) - 1), ret |-> vec[Len(vec)]]

\* any popped command, HALT included, leaves the HALT state
debug_halt_any_command(emulator_, ctx) ==
    LET shown  == IF ctx.display_cpu_reg
                  THEN [ctx EXCEPT !.display_cpu_reg = FALSE]
                  ELSE ctx
        popped == Vec_pop(shown.cmd)
        taken  == [shown EXCEPT !.cmd = popped.vec]
        ran    == IF popped.ret \in {"RUN", "HALT"}
                  THEN [taken EXCEPT !.display_cpu_reg = TRUE, !.debugger_state = "RUN"]
                  ELSE taken
        stepd  == IF popped.ret = "STEP"
                  THEN [ran EXCEPT !.display_cpu_reg = TRUE, !.debugger_state = "STEP"]
                  ELSE ran
    IN  [emulator |-> emulator_, dbg_ctx |-> stepd, cmd |-> popped.ret, soc_ran |-> FALSE]

\* the RunMachine arm of run_debug_mode in debugger state HALT
debug_halt(emulator_, ctx) ==
    LET shown  == IF ctx.display_cpu_reg
                  THEN [ctx EXCEPT !.display_cpu_reg = FALSE]
                  ELSE ctx
        popped == Vec_pop(shown.cmd)
        taken  == [shown EXCEPT !.cmd = popped.vec]
        ran    == IF popped.ret = "RUN"
                  THEN [taken EXCEPT !.display_cpu_reg = TRUE, !.debugger_state = "RUN"]
                  ELSE taken
        stepd  == IF popped.ret = "STEP"
                  THEN [ran EXCEPT !.display_cpu_reg = TRUE, !.debugger_state = "STEP"]
                  ELSE ran
    IN  [emulator |-> emulator_, dbg_ctx |-> stepd, cmd |-> popped.ret, soc_ran |-> FALSE]

\* the frame counter keeps its value when the frame ends in RUN
debug_run_no_reset(emulator_, ctx, soc) ==
    LET cycles  == emulator_.cycles_elapsed_in_frame + soc.cycles
        stepped == IF cycles >= ONE_FRAME_IN_CYCLES
                   THEN [emulator_ EXCEPT !.cycles_elapsed_in_frame = cycles,
                                          !.state = "WaitNextFrame"]
                   ELSE [emulator_ EXCEPT !.cycles_elapsed_in_frame = cycles]
        broken  == IF ctx.break_enabled /\ ctx.breakpoint = soc.pc
                   THEN [ctx EXCEPT !.display_cpu_reg = TRUE, !.debugger_state = "HALT"]
                   ELSE ctx
        popped  == Vec_pop(broken.cmd)
        taken   == [broken EXCEPT !.cmd = popped.vec]
        halted  == IF popped.ret = "HALT"
                   THEN [taken EXCEPT !.display_cpu_reg = TRUE, !.debugger_state = "HALT"]
                   ELSE taken
    IN  [emulator |-> stepped, dbg_ctx |-> halted, cmd |-> popped.ret, soc_ran |-> TRUE]

\* the breakpoint halts whether it is enabled or not
debug_run_break_always(emulator_, ctx, soc) ==
    LET cycles  == emulator_.cycles_elapsed_in_frame + soc.cycles
        stepped == IF cycles >= ONE_FRAME_IN_CYCLES
                   THEN [emulator_ EXCEPT !.cycles_elapsed_in_frame = 0,
                                          !.state = "WaitNextFrame"]
                   ELSE [emulator_ EXCEPT !.cycles_elapsed_in_frame = cycles]
        broken  == IF ctx.breakpoint = soc.pc
                   THEN [ctx EXCEPT !.display_cpu_reg = TRUE, !.debugger_state = "HALT"]
                   ELSE ctx
        popped  == Vec_pop(broken.cmd)
        taken   == [broken EXCEPT !.cmd = popped.vec]
        halted  == IF popped.ret = "HALT"
                   THEN [taken EXCEPT !.display_cpu_reg = TRUE, !.debugger_state = "HALT"]
                   ELSE taken
    IN  [emulator |-> stepped, dbg_ctx |-> halted, cmd |-> popped.ret, soc_ran |-> TRUE]

\* the RunMachine arm of run_debug_mode in debugger state RUN; soc is what
\* Soc::run returns (cycles) and where it leaves the cpu (pc)
debug_run(emulator_, ctx, soc) ==
    LET cycles  == emulator_.cycles_elapsed_in_frame + soc.cycles
        stepped == IF cycles >= ONE_FRAME_IN_CYCLES
                   THEN [emulator_ EXCEPT !.cycles_elapsed_in_frame = 0,
                                          !.state = "WaitNextFrame"]
                   ELSE [emulator_ EXCEPT !.cycles_elapsed_in_frame = cycles]
        broken  == IF ctx.break_enabled /\ ctx.breakpoint = soc.pc
                   THEN [ctx EXCEPT !.display_cpu_reg = TRUE, !.debugger_state = "HALT"]
                   ELSE ctx
        popped  == Vec_pop(broken.cmd)
        taken   == [broken EXCEPT !.cmd = popped.vec]
        halted  == IF popped.ret = "HALT"
                   THEN [taken EXCEPT !.display_cpu_reg = TRUE, !.debugger_state = "HALT"]
                   ELSE taken
    IN  [emulator |-> stepped, dbg_ctx |-> halted, cmd |-> popped.ret, soc_ran |-> TRUE]

\* the debugger stays in STEP after the instruction
debug_step_no_halt(emulator_, ctx, soc) ==
    LET cycles  == emulator_.cycles_elapsed_in_frame + soc.cycles
        stepped == IF cycles >= ONE_FRAME_IN_CYCLES
                   THEN [emulator_ EXCEPT !.cycles_elapsed_in_frame = 0,
                                          !.state = "WaitNextFrame"]
                   ELSE [emulator_ EXCEPT !.cycles_elapsed_in_frame = cycles]
    IN  [emulator |-> stepped,
         dbg_ctx  |-> ctx,
         cmd      |-> "NoPop",
         soc_ran  |-> TRUE]

\* the RunMachine arm of run_debug_mode in debugger state STEP
debug_step(emulator_, ctx, soc) ==
    LET cycles  == emulator_.cycles_elapsed_in_frame + soc.cycles
        stepped == IF cycles >= ONE_FRAME_IN_CYCLES
                   THEN [emulator_ EXCEPT !.cycles_elapsed_in_frame = 0,
                                          !.state = "WaitNextFrame"]
                   ELSE [emulator_ EXCEPT !.cycles_elapsed_in_frame = cycles]
    IN  [emulator |-> stepped,
         dbg_ctx  |-> [ctx EXCEPT !.debugger_state = "HALT"],
         cmd      |-> "NoPop",
         soc_ran  |-> TRUE]

\* run_debug_mode: `now` is the clock reading, soc what Soc::run does when it is
\* called, vram the tile memory the viewer buffer is drawn from.  cmd is the
\* command popped by the call ("NoPop" when the call pops nothing).
run_debug_mode(emulator_, ctx, now, soc, vram) ==
    CASE emulator_.state = "GetTime" ->
            [emulator |-> [emulator_ EXCEPT !.frame_tick = now, !.state = "RunMachine"],
             dbg_ctx  |-> ctx, cmd |-> "NoPop", soc_ran |-> FALSE]
      [] emulator_.state = "RunMachine" ->
            (CASE ctx.debugger_state = "HALT" -> debug_halt(emulator_, ctx)
               [] ctx.debugger_state = "RUN" -> debug_run(emulator_, ctx, soc)
               [] ctx.debugger_state = "STEP" -> debug_step(emulator_, ctx, soc))
      [] emulator_.state = "WaitNextFrame" ->
            [emulator |-> IF now - emulator_.frame_tick >= ONE_FRAME_IN_NS
                          THEN [emulator_ EXCEPT !.state = "DisplayFrame"]
                          ELSE emulator_,
             dbg_ctx  |-> ctx, cmd |-> "NoPop", soc_ran |-> FALSE]
      [] emulator_.state = "DisplayFrame" ->
            [emulator |-> [emulator_ EXCEPT !.state = "GetTime"],
             dbg_ctx  |-> [ctx EXCEPT !.vram_viewer_buffer = vram],
             cmd |-> "NoPop", soc_ran |-> FALSE]

\* the words debug_cli looks for in a console line
CliWords == {"break_set", "break_reset", "run", "halt", "step", "help"}

\* one console line of debug_cli that contains the word `command`; brk_addr is
\* the address parsed from a break_set line
debug_cli(ctx, command, brk_addr) ==
    CASE command = "break_set" ->
            [ctx EXCEPT !.breakpoint = brk_addr, !.break_enabled = TRUE]
      [] command = "break_reset" -> [ctx EXCEPT !.break_enabled = FALSE]
      [] command = "run" -> [ctx EXCEPT !.cmd = Vec_push(@, "RUN")]
      [] command = "halt" -> [ctx EXCEPT !.cmd = Vec_push(@, "HALT")]
      [] command = "step" -> [ctx EXCEPT !.cmd = Vec_push(@, "STEP")]
      [] command = "help" -> ctx

(***************************************************************************)
(* Bounds and inputs                                                       *)
(***************************************************************************)
\* the clock readings stay within MaxFrames frame periods
MaxFrames == 2

\* the count of cycles run since the last 0xFF46 write saturates here
SinceCap == 161

\* the CLI posts a command only while fewer than MaxQueue are waiting
MaxQueue == 2

\* bytes given to Nvic::from_byte: 0x00, 0x0C, 0xE3, 0xFF
FromByteData == {0, 12, 227, 255}

\* bus writes of the bus specification: 0x0000, 0xC000, 0xDDFF, 0xDE00, 0xE000,
\* 0xFDFF and 0xFF50
BusWriteAddresses == {0, 49152, 56831, 56832, 57344, 65023, 65360}
BusWriteData == {0, 170}

\* bus writes of the DMA specification: 0xAA to 0xC000, and the DMA sources 0xC0, 0xC1
DmaWriteAddresses == {49152}
DmaWriteData == {170}
DmaSources == {192, 193}

\* bus accesses of the I/O specification: 0xFF00, 0xFF03, 0xFF07, 0xFF0F, 0xFF10,
\* 0xFF15, 0xFF27, 0xFF44, 0xFF46, 0xFF47, 0xFF4D, 0xFF50 and 0xFF7F
IoAddresses ==
    {65280, 65283, 65287, 65295, 65296, 65301, 65319, 65348, 65350, 65351, 65357,
     65360, 65407}
IoData == {0, 170}

\* machine cycles given to Peripheral::run
BusRunCycles == {1, 24}
DmaRunCycles == {8, 24}

\* machine cycles given to Peripheral::run while a DMA transfer is observed
RunCycles == {20, 40}

\* the DMA source page of the run specification: 0xC0
RunSources == {192}

\* the DMA source pages of the page specification (0xC0 work RAM, 0xFF I/O
\* registers and zero page), its RAM writes (0xAA to 0xC09F, the last byte of the
\* source range of page 0xC0, and to 0xC0A0, the byte after it) and the machine
\* cycles of its run calls
PageSources == {192, 255}
PageWriteAddresses == {49311, 49312}
PageWriteData == {170}
PageRunCycles == {4, 24}
PageRunEnv ==
    [tima_overflow : {FALSE}, gpu_raised : {{}}, overflow_checks : BOOLEAN]

\* bus accesses of the RAM specification: 0xC000, 0xDFFF, 0xE000, 0xFF80
RamWriteAddresses == {49152, 57343, 57344, 65408}
RamReadAddresses == {49152}
RamData == {85, 170}
RamRunCycles == {40}
RamRunEnv ==
    [tima_overflow : {TRUE}, gpu_raised : {{"VBLANK"}}, overflow_checks : {FALSE}]

\* what timer and gpu do during a Peripheral::run
BusRunEnv ==
    [tima_overflow : BOOLEAN, gpu_raised : {{}}, overflow_checks : {FALSE}]
DmaRunEnv ==
    [tima_overflow : {FALSE}, gpu_raised : {{}}, overflow_checks : BOOLEAN]
RunEnv ==
    [tima_overflow : BOOLEAN, gpu_raised : {{}, {"VBLANK"}}, overflow_checks : {FALSE}]

\* machine cycles returned by Soc::run
SocCycles == {12, 24}

\* how far the clock moves between two readings
ClockSteps == {0, ONE_FRAME_IN_NS - 1, ONE_FRAME_IN_NS}

MaxClock == MaxFrames * ONE_FRAME_IN_NS

\* machine cycles returned by Soc::run when the host polls for ever: the least
\* (1) and the most (24) a step can take
LiveCycles == {1, 24}

\* how far the clock moves from one reading to the next when the host polls for
\* ever: always forward
LiveClockSteps == {ONE_FRAME_IN_NS - 1, ONE_FRAME_IN_NS}

\* what Soc::run does in debug mode: the cycles returned and the pc it leaves
DebugSoc == [cycles : {20}, pc : {256}]

\* how far the clock moves between two readings in debug mode
DebugClockSteps == {0, ONE_FRAME_IN_NS}

\* the console lines typed in debug mode
DebugCommands == {"run", "halt", "step"}

\* the breakpoint specification follows the first MaxBreakRuns instructions of a
\* frame
MaxBreakRuns == 3

\* the console lines typed while breakpoints are used, the address of break_set
\* (0x0100) and the places where Soc::run leaves the cpu (0x0100, 0x0200)
BreakCommands == {"break_set", "break_reset", "run", "halt"}
BreakAddresses == {256}
BreakSoc == [cycles : {20}, pc : {256, 512}]

(***************************************************************************)
(* History                                                                 *)
(***************************************************************************)
\* no DisplayFrame entry yet, no RAM address
NEVER == 0 - 1

\* the sources that are both enabled and flagged
PendingSources(nvic) ==
    {s \in InterruptSources :
        /\ Bit(nvic.interrupt_enable, SourceAsU8(s)) = 1
        /\ Bit(nvic.interrupt_flag, SourceAsU8(s)) = 1}

DrainStart(nvic) == [start |-> PendingSources(nvic), taken |-> <<>>, done |-> FALSE]

\* the bytes of the DMA source range of `self`
SourceRange(self) ==
    [i \in 0 .. (OAM_SIZE - 1) |-> read(self, self.dma_start_adress + i)]

Saturate(n) == IF n > SinceCap THEN SinceCap ELSE n

\* the work RAM or zero page address a bus write lands on, or NEVER
RamAddress(address) ==
    CASE address \in WORKING_RAM_BEGIN .. WORKING_RAM_END -> address
      [] address \in ECHO_RAM_BEGIN .. ECHO_RAM_END -> address - 8192
      [] address \in ZERO_PAGE_BEGIN .. ZERO_PAGE_END -> address
      [] OTHER -> NEVER

\* the value last written to each RAM address written so far
Remember(shadow, address, data) ==
    IF RamAddress(address) = NEVER
    THEN shadow
    ELSE [a \in (DOMAIN shadow) \cup {RamAddress(address)} |->
            IF a = RamAddress(address) THEN data ELSE shadow[a]]

\* what one Peripheral::run did, device by device: the cycles given, whether OAM
\* is still as before the call or already as after it, and IF after the device
RanOf(self, steps) ==
    [k \in 1 .. Len(steps) |->
        [device  |-> steps[k].device,
         cycles  |-> steps[k].cycles,
         oam_old |-> steps[k].after.gpu.oam = self.gpu.oam,
         oam_new |-> steps[k].after.gpu.oam = steps[Len(steps)].after.gpu.oam,
         flag    |-> steps[k].after.nvic.interrupt_flag]]

(***************************************************************************)
(* Initial state: Emulator::new, Peripheral::new, Nvic::new                *)
(***************************************************************************)
Init ==
    /\ peripheral = Peripheral_new
    /\ emulator = Emulator_new(0)
    /\ clock = 0
    /\ call = [op |-> "new", arg |-> <<>>, ret |-> "NA"]
    /\ drain = DrainStart(Nvic_new)
    /\ bus_obs = [boot_written |-> FALSE, dma_written |-> FALSE, since |-> 0,
                  clean |-> TRUE, ran |-> <<>>, shadow |-> <<>>]
    /\ frame_obs = [frame_cycles |-> 0, last_display |-> NEVER, prev_display |-> NEVER]
    /\ dbg_ctx = DebugCtx_new
    /\ dbg_obs = [fifo |-> <<>>, popped |-> "NoPop", expected |-> "NoPop",
                  soc_ran |-> FALSE, cycles |-> 0, pc |-> NEVER]

(***************************************************************************)
(* The operations of Nvic                                                  *)
(***************************************************************************)
MasterEnable ==
    \E enable \in BOOLEAN :
        /\ peripheral' = [peripheral EXCEPT !.nvic = master_enable(@, enable)]
        /\ call' = [op |-> "master_enable", arg |-> <<enable>>, ret |-> "NA"]
        /\ UNCHANGED <<dbg_ctx, dbg_obs, emulator, clock, drain, bus_obs, frame_obs>>

EnableInterrupt ==
    \E source \in InterruptSources, enable \in BOOLEAN :
        /\ peripheral' = [peripheral EXCEPT !.nvic = enable_interrupt(@, source, enable)]
        /\ call' = [op |-> "enable_interrupt", arg |-> <<source, enable>>, ret |-> "NA"]
        /\ drain' = DrainStart(peripheral'.nvic)
        /\ UNCHANGED <<dbg_ctx, dbg_obs, emulator, clock, bus_obs, frame_obs>>

SetInterrupt ==
    \E source \in InterruptSources :
        /\ peripheral' = [peripheral EXCEPT !.nvic = set_interrupt(@, source)]
        /\ call' = [op |-> "set_interrupt", arg |-> <<source>>, ret |-> "NA"]
        /\ drain' = DrainStart(peripheral'.nvic)
        /\ UNCHANGED <<dbg_ctx, dbg_obs, emulator, clock, bus_obs, frame_obs>>

GetInterrupt ==
    LET r == get_interrupt(peripheral.nvic)
    IN  /\ r.ret # "PANIC"
        /\ peripheral' = [peripheral EXCEPT !.nvic = r.nvic]
        /\ call' = [op |-> "get_interrupt", arg |-> <<>>, ret |-> r.ret]
        /\ drain' = IF r.ret = "None"
                    THEN [drain EXCEPT !.done = TRUE]
                    ELSE [drain EXCEPT !.taken = Append(@, r.ret)]
        /\ UNCHANGED <<dbg_ctx, dbg_obs, emulator, clock, bus_obs, frame_obs>>

FromByte ==
    \E data \in FromByteData :
        /\ peripheral' = [peripheral EXCEPT !.nvic = from_byte(@, data)]
        /\ call' = [op |-> "from_byte", arg |-> <<data>>, ret |-> "NA"]
        /\ drain' = DrainStart(peripheral'.nvic)
        /\ UNCHANGED <<dbg_ctx, dbg_obs, emulator, clock, bus_obs, frame_obs>>

NextNvic ==
    \/ MasterEnable
    \/ EnableInterrupt
    \/ SetInterrupt
    \/ GetInterrupt
    \/ FromByte

SpecNvic == Init /\ [][NextNvic]_vars

(***************************************************************************)
(* The operations of Peripheral                                            *)
(***************************************************************************)
\* Peripheral::write(address, data)
Write(address, data) ==
    /\ ~peripheral.panicked
    /\ peripheral' = write(peripheral, address, data)
    /\ call' = [op |-> "write", arg |-> <<address, data>>, ret |-> "NA"]
    /\ bus_obs' =
         IF address = 65350
         THEN [bus_obs EXCEPT !.dma_written = TRUE, !.since = 0, !.clean = TRUE]
         ELSE [bus_obs EXCEPT
                 !.boot_written = @ \/ address = 65360,
                 !.clean = @ /\ peripheral'.gpu.oam = peripheral.gpu.oam
                             /\ (bus_obs.dma_written =>
                                   SourceRange(peripheral') = SourceRange(peripheral)),
                 !.shadow = Remember(@, address, data)]
    /\ UNCHANGED <<dbg_ctx, dbg_obs, emulator, clock, drain, frame_obs>>

\* Peripheral::run(runned_cycles)
Run(runned_cycles, env) ==
    \E steps \in {Peripheral_run_steps(peripheral, runned_cycles, env)} :
        /\ ~peripheral.panicked
        /\ peripheral' = steps[Len(steps)].after
        /\ call' = [op |-> "run", arg |-> <<runned_cycles>>, ret |-> "NA"]
        /\ bus_obs' = [bus_obs EXCEPT
                         !.since = IF bus_obs.dma_written
                                   THEN Saturate(@ + runned_cycles)
                                   ELSE @,
                         !.ran = RanOf(peripheral, steps)]
        /\ UNCHANGED <<dbg_ctx, dbg_obs, emulator, clock, drain, frame_obs>>

\* Peripheral::read(address)
Read(address) ==
    LET data == read(peripheral, address)
    IN  /\ ~peripheral.panicked
        /\ peripheral' = IF data = PANIC
                         THEN [peripheral EXCEPT !.panicked = TRUE]
                         ELSE peripheral
        /\ call' = [op |-> "read", arg |-> <<address>>, ret |-> data]
        /\ UNCHANGED <<dbg_ctx, dbg_obs, emulator, clock, drain, bus_obs, frame_obs>>

BusWrite == \E address \in BusWriteAddresses, data \in BusWriteData : Write(address, data)

BusRun == \E runned_cycles \in BusRunCycles, env \in BusRunEnv : Run(runned_cycles, env)

NextBus ==
    \/ BusWrite
    \/ BusRun

SpecBus == Init /\ [][NextBus]_vars

DmaRamWrite == \E address \in DmaWriteAddresses, data \in DmaWriteData : Write(address, data)

DmaStart == \E data \in DmaSources : Write(65350, data)

DmaRun == \E runned_cycles \in DmaRunCycles, env \in DmaRunEnv : Run(runned_cycles, env)

NextDma ==
    \/ DmaRamWrite
    \/ DmaStart
    \/ DmaRun

SpecDma == Init /\ [][NextDma]_vars

RunRamWrite == \E address \in DmaWriteAddresses, data \in DmaWriteData : Write(address, data)

RunDmaStart == \E data \in RunSources : Write(65350, data)

RunRun == \E runned_cycles \in RunCycles, env \in RunEnv : Run(runned_cycles, env)

NextRun ==
    \/ RunRamWrite
    \/ RunDmaStart
    \/ RunRun

SpecRun == Init /\ [][NextRun]_vars

RamWrite == \E address \in RamWriteAddresses, data \in RamData : Write(address, data)

RamRead == \E address \in RamReadAddresses : Read(address)

RamDmaStart == \E data \in RunSources : Write(65350, data)

RamRun == \E runned_cycles \in RamRunCycles, env \in RamRunEnv : Run(runned_cycles, env)

NextRam ==
    \/ RamWrite
    \/ RamRead
    \/ RamDmaStart
    \/ RamRun

SpecRam == Init /\ [][NextRam]_vars

\* Peripheral::write and Peripheral::run without the history of the bus
PageWrite(address, data) ==
    /\ ~peripheral.panicked
    /\ peripheral' = write(peripheral, address, data)
    /\ call' = [op |-> "write", arg |-> <<address, data>>, ret |-> "NA"]
    /\ UNCHANGED <<dbg_ctx, dbg_obs, emulator, clock, drain, bus_obs, frame_obs>>

PageRamWrite ==
    \E address \in PageWriteAddresses, data \in PageWriteData : PageWrite(address, data)

PageStart == \E data \in PageSources : PageWrite(65350, data)

PageRun ==
    \E runned_cycles \in PageRunCycles, env \in PageRunEnv :
        \E after \in {Peripheral_run(peripheral, runned_cycles, env)} :
            /\ ~peripheral.panicked
            /\ peripheral' = after
            /\ call' = [op |-> "run", arg |-> <<runned_cycles>>, ret |-> "NA"]
            /\ UNCHANGED <<dbg_ctx, dbg_obs, emulator, clock, drain, bus_obs, frame_obs>>

NextPage ==
    \/ PageRamWrite
    \/ PageStart
    \/ PageRun

SpecPage == Init /\ [][NextPage]_vars

IoRead == \E address \in IoAddresses : Read(address)

IoWrite == \E address \in IoAddresses, data \in IoData : Write(address, data)

NextIo ==
    \/ IoRead
    \/ IoWrite

SpecIo == Init /\ [][NextIo]_vars

(***************************************************************************)
(* Emulator::run in normal mode, one action per state of the frame loop    *)
(***************************************************************************)
\* Emulator::run: `now` is the clock reading of a call that reads the clock,
\* soc_cycles the value Soc::run returns to a call that runs the machine
EmulatorRun(now, soc_cycles) ==
    LET entered == /\ emulator.state = "WaitNextFrame"
                   /\ emulator'.state = "DisplayFrame"
    IN  /\ emulator' = run_normal_mode(emulator, now, soc_cycles)
        /\ clock' = now
        /\ call' = [op |-> "Emulator::run", arg |-> <<emulator.state, soc_cycles>>,
                    ret |-> "NA"]
        /\ frame_obs' =
             [frame_cycles |-> IF emulator.state = "GetTime" THEN 0
                               ELSE frame_obs.frame_cycles + soc_cycles,
              last_display |-> IF entered THEN now ELSE frame_obs.last_display,
              prev_display |-> IF entered THEN frame_obs.last_display
                               ELSE frame_obs.prev_display]
        /\ UNCHANGED <<dbg_ctx, dbg_obs, peripheral, drain, bus_obs>>

RunGetTime ==
    /\ emulator.state = "GetTime"
    /\ \E d \in ClockSteps :
         /\ clock + d <= MaxClock
         /\ EmulatorRun(clock + d, 0)

RunRunMachine ==
    /\ emulator.state = "RunMachine"
    /\ \E soc_cycles \in SocCycles : EmulatorRun(clock, soc_cycles)

RunWaitNextFrame ==
    /\ emulator.state = "WaitNextFrame"
    /\ \E d \in ClockSteps :
         /\ clock + d <= MaxClock
         /\ EmulatorRun(clock + d, 0)

RunDisplayFrame ==
    /\ emulator.state = "DisplayFrame"
    /\ EmulatorRun(clock, 0)

NextEmulator ==
    \/ RunGetTime
    \/ RunRunMachine
    \/ RunWaitNextFrame
    \/ RunDisplayFrame

SpecEmulator == Init /\ [][NextEmulator]_vars

(***************************************************************************)
(* Emulator::run in normal mode, polled for ever.  Instants are compared   *)
(* only through frame_tick.elapsed(), so the reading of GetTime is taken   *)
(* as the origin of the clock and the clock stays bounded.                 *)
(***************************************************************************)
LiveRun(now, soc_cycles) ==
    /\ emulator' = run_normal_mode(emulator, now, soc_cycles)
    /\ clock' = now
    /\ call' = [op |-> "Emulator::run", arg |-> <<emulator.state, soc_cycles>>,
                ret |-> "NA"]
    /\ UNCHANGED <<dbg_ctx, dbg_obs, peripheral, drain, bus_obs, frame_obs>>

LiveGetTime ==
    /\ emulator.state = "GetTime"
    /\ LiveRun(0, 0)

LiveRunMachine ==
    /\ emulator.state = "RunMachine"
    /\ \E soc_cycles \in LiveCycles : LiveRun(clock, soc_cycles)

LiveWaitNextFrame ==
    /\ emulator.state = "WaitNextFrame"
    /\ \E d \in LiveClockSteps : LiveRun(clock + d, 0)

LiveDisplayFrame ==
    /\ emulator.state = "DisplayFrame"
    /\ LiveRun(clock, 0)

NextLive ==
    \/ LiveGetTime
    \/ LiveRunMachine
    \/ LiveWaitNextFrame
    \/ LiveDisplayFrame

\* the host loop calls Emulator::run again and again
SpecLive == Init /\ [][NextLive]_vars /\ WF_vars(NextLive)

(***************************************************************************)
(* Emulator::run in debug mode, and the CLI thread                         *)
(***************************************************************************)
\* the command a console line posts, if any
PostedBy(command) ==
    CASE command = "run" -> <<"RUN">>
      [] command = "halt" -> <<"HALT">>
      [] command = "step" -> <<"STEP">>
      [] OTHER -> <<>>

\* run_debug_mode under the mutex of the DebugCtx
DebugRun(now, soc) ==
    \E r \in {run_debug_mode(emulator, dbg_ctx, now, soc, peripheral.gpu.vram)} :
        /\ emulator' = r.emulator
        /\ dbg_ctx' = r.dbg_ctx
        /\ clock' = now
        /\ call' = [op |-> "run_debug_mode",
                    arg |-> <<emulator.state, dbg_ctx.debugger_state>>,
                    ret |-> r.cmd]
        /\ dbg_obs' =
             [fifo     |-> IF r.cmd = "NoPop" \/ dbg_obs.fifo = <<>>
                           THEN dbg_obs.fifo
                           ELSE Tail(dbg_obs.fifo),
              popped   |-> r.cmd,
              expected |-> IF r.cmd = "NoPop" THEN "NoPop"
                           ELSE IF dbg_obs.fifo = <<>> THEN "None"
                           ELSE Head(dbg_obs.fifo),
              soc_ran  |-> r.soc_ran,
              cycles   |-> IF r.soc_ran THEN soc.cycles ELSE 0,
              pc       |-> IF r.soc_ran THEN soc.pc ELSE NEVER]
        /\ UNCHANGED <<peripheral, drain, bus_obs, frame_obs>>

\* one console line handled by the thread of debug_cli
Cli(command, brk_addr) ==
    /\ dbg_ctx' = debug_cli(dbg_ctx, command, brk_addr)
    /\ call' = [op |-> "debug_cli", arg |-> <<command>>, ret |-> "NA"]
    /\ dbg_obs' = [fifo |-> dbg_obs.fifo \o PostedBy(command), popped |-> "NoPop",
                   expected |-> "NoPop", soc_ran |-> FALSE, cycles |-> 0,
                   pc |-> NEVER]
    /\ UNCHANGED <<peripheral, emulator, clock, drain, bus_obs, frame_obs>>

DbgGetTime ==
    /\ emulator.state = "GetTime"
    /\ \E d \in DebugClockSteps, soc \in DebugSoc :
         /\ clock + d <= MaxClock
         /\ DebugRun(clock + d, soc)

DbgRunMachine ==
    /\ emulator.state = "RunMachine"
    /\ \E soc \in DebugSoc : DebugRun(clock, soc)

DbgWaitNextFrame ==
    /\ emulator.state = "WaitNextFrame"
    /\ \E d \in DebugClockSteps, soc \in DebugSoc :
         /\ clock + d <= MaxClock
         /\ DebugRun(clock + d, soc)

DbgDisplayFrame ==
    /\ emulator.state = "DisplayFrame"
    /\ \E soc \in DebugSoc : DebugRun(clock, soc)

DbgCli ==
    /\ Len(dbg_ctx.cmd) < MaxQueue
    /\ \E command \in DebugCommands : Cli(command, 0)

NextDebug ==
    \/ DbgGetTime
    \/ DbgRunMachine
    \/ DbgWaitNextFrame
    \/ DbgDisplayFrame
    \/ DbgCli

SpecDebug == Init /\ [][NextDebug]_vars

(***************************************************************************)
(* Debug mode over whole frames, without the history of the queue order    *)
(***************************************************************************)
\* run_debug_mode under the mutex of the DebugCtx
DebugCall(now, soc) ==
    \E r \in {run_debug_mode(emulator, dbg_ctx, now, soc, peripheral.gpu.vram)} :
        /\ emulator' = r.emulator
        /\ dbg_ctx' = r.dbg_ctx
        /\ clock' = now
        /\ call' = [op |-> "run_debug_mode",
                    arg |-> <<emulator.state, dbg_ctx.debugger_state>>,
                    ret |-> r.cmd]
        /\ dbg_obs' = [dbg_obs EXCEPT
                         !.popped  = r.cmd,
                         !.soc_ran = r.soc_ran,
                         !.cycles  = IF r.soc_ran THEN soc.cycles ELSE 0,
                         !.pc      = IF r.soc_ran THEN soc.pc ELSE NEVER]
        /\ UNCHANGED <<peripheral, drain, bus_obs, frame_obs>>

\* one console line handled by the thread of debug_cli
CliLine(command, brk_addr) ==
    /\ dbg_ctx' = debug_cli(dbg_ctx, command, brk_addr)
    /\ call' = [op |-> "debug_cli", arg |-> <<command>>, ret |-> "NA"]
    /\ dbg_obs' = [dbg_obs EXCEPT !.popped = "NoPop", !.soc_ran = FALSE,
                                  !.cycles = 0, !.pc = NEVER]
    /\ UNCHANGED <<peripheral, emulator, clock, drain, bus_obs, frame_obs>>

LoopGetTime ==
    /\ emulator.state = "GetTime"
    /\ \E d \in DebugClockSteps, soc \in DebugSoc :
         /\ clock + d <= MaxClock
         /\ DebugCall(clock + d, soc)

LoopRunMachine ==
    /\ emulator.state = "RunMachine"
    /\ \E soc \in DebugSoc : DebugCall(clock, soc)

LoopWaitNextFrame ==
    /\ emulator.state = "WaitNextFrame"
    /\ \E d \in DebugClockSteps, soc \in DebugSoc :
         /\ clock + d <= MaxClock
         /\ DebugCall(clock + d, soc)

LoopDisplayFrame ==
    /\ emulator.state = "DisplayFrame"
    /\ \E soc \in DebugSoc : DebugCall(clock, soc)

LoopCli ==
    /\ Len(dbg_ctx.cmd) < MaxQueue
    /\ \E command \in DebugCommands : CliLine(command, 0)

NextLoop ==
    \/ LoopGetTime
    \/ LoopRunMachine
    \/ LoopWaitNextFrame
    \/ LoopDisplayFrame
    \/ LoopCli

SpecLoop == Init /\ [][NextLoop]_vars

(***************************************************************************)
(* Debug mode with breakpoints, over the first instructions of a frame     *)
(***************************************************************************)
BrkGetTime ==
    /\ emulator.state = "GetTime"
    /\ \E soc \in BreakSoc : DebugRun(clock, soc)

BrkRunMachine ==
    /\ emulator.state = "RunMachine"
    /\ emulator.cycles_elapsed_in_frame < MaxBreakRuns * 20
    /\ \E soc \in BreakSoc : DebugRun(clock, soc)

BrkCli ==
    /\ Len(dbg_ctx.cmd) < MaxQueue
    /\ \E command \in BreakCommands, brk_addr \in BreakAddresses :
         Cli(command, brk_addr)

NextBreak ==
    \/ BrkGetTime
    \/ BrkRunMachine
    \/ BrkCli

SpecBreak == Init /\ [][NextBreak]_vars

(***************************************************************************)
(* Properties of the interrupt controller (SpecNvic)                       *)
(***************************************************************************)
\* the bit indexes 0..4 set in both IE and IF
PendingIndexes(nvic) ==
    {i \in 0 .. 4 : Bit(nvic.interrupt_enable, i) = 1 /\ Bit(nvic.interrupt_flag, i) = 1}

Lowest(S) == CHOOSE i \in S : \A j \in S : i <= j

SourceAtIndex(i) == CHOOSE s \in InterruptSources : SourceAsU8(s) = i

\* C1: a get_interrupt call made while some bit 0..4 of IE & IF is set returns the
\* source of the lowest such bit and clears exactly that bit of IF, leaving the
\* other IF bits, IE and IME as they were; with no such bit it returns None and
\* changes nothing.
C1_TakeLowestAndClearIt ==
    [][call'.op = "get_interrupt" =>
        LET before == peripheral.nvic
            after  == peripheral'.nvic
            P      == PendingIndexes(before)
        IN  IF P # {}
            THEN /\ call'.ret = SourceAtIndex(Lowest(P))
                 /\ after.interrupt_flag = before.interrupt_flag - 2 ^ Lowest(P)
                 /\ after.interrupt_enable = before.interrupt_enable
                 /\ after.interrupt_master_enable = before.interrupt_master_enable
            ELSE /\ call'.ret = "None"
                 /\ after = before]_vars

\* STAT was taken while TIMER was pending too and is still pending
C1_Witness ==
    /\ call.op = "get_interrupt"
    /\ call.ret = "STAT"
    /\ "TIMER" \in PendingSources(peripheral.nvic)
    /\ Bit(peripheral.nvic.interrupt_flag, 1) = 0

IsStrictlyIncreasing(taken) ==
    \A i \in 1 .. Len(taken) : \A j \in 1 .. Len(taken) :
        i < j => SourceAsU8(taken[i]) < SourceAsU8(taken[j])

SeqRange(seq) == {seq[i] : i \in 1 .. Len(seq)}

\* C2: the get_interrupt calls made since the last change of IE or IF return the
\* sources that were enabled and flagged at that point in strictly increasing
\* bit-index order, each once; what has not been returned yet is still pending;
\* once all were returned the next call returns None, and a None is returned
\* only then.
C2_DrainInPriorityOrder ==
    /\ IsStrictlyIncreasing(drain.taken)
    /\ SeqRange(drain.taken) \cup PendingSources(peripheral.nvic) = drain.start
    /\ SeqRange(drain.taken) \cap PendingSources(peripheral.nvic) = {}
    /\ (SeqRange(drain.taken) = drain.start
            => get_interrupt(peripheral.nvic).ret = "None")
    /\ (drain.done => SeqRange(drain.taken) = drain.start)

\* STAT raised, then VBLANK; the calls returned VBLANK, STAT, None
C2_Witness ==
    /\ drain.start = {"VBLANK", "STAT"}
    /\ drain.taken = <<"VBLANK", "STAT">>
    /\ drain.done
    /\ call.op = "get_interrupt"
    /\ call.ret = "None"

\* C3: is_an_interrupt_pending() is true exactly when some bit is set in both IE
\* and IF, and is_an_interrupt_to_run() exactly when moreover IME is set.
C3_PendingAndToRun ==
    LET nvic == peripheral.nvic
        both == \E i \in 0 .. 7 : /\ Bit(nvic.interrupt_enable, i) = 1
                                  /\ Bit(nvic.interrupt_flag, i) = 1
    IN  /\ is_an_interrupt_pending(nvic) = both
        /\ is_an_interrupt_to_run(nvic) = (nvic.interrupt_master_enable /\ both)

\* SERIAL is flagged, only VBLANK and STAT are enabled, IME is set: nothing to run
C3_Witness ==
    /\ peripheral.nvic.interrupt_flag = 8
    /\ peripheral.nvic.interrupt_enable = 3
    /\ peripheral.nvic.interrupt_master_enable
    /\ ~is_an_interrupt_pending(peripheral.nvic)
    /\ ~is_an_interrupt_to_run(peripheral.nvic)

(***************************************************************************)
(* Properties of the bus (SpecBus)                                         *)
(***************************************************************************)
\* C4: until 0xFF50 is written, reads of 0x0000..=0x00FF return the boot ROM
\* bytes; once it has been written, with any value, they return the bytes of
\* cartridge bank 0, whatever is written or run afterwards.  Reads of
\* 0x0100..=0x3FFF always return the bytes of cartridge bank 0.
C4_BootOverlayLatch ==
    /\ \A address \in BOOT_ROM_BEGIN .. BOOT_ROM_END :
          read(peripheral, address) =
              IF bus_obs.boot_written
              THEN Cartridge_read_bank_0(address)
              ELSE BootRom_read(peripheral.boot_rom, address)
    /\ \A address \in (BOOT_ROM_END + 1) .. ROM_BANK_0_END :
          read(peripheral, address) = Cartridge_read_bank_0(address)

\* 0xFF50 was written with zero, then peripheral ran: 0x0000 reads the cartridge
C4_Witness ==
    /\ bus_obs.boot_written
    /\ ~BootRom_get_state(peripheral.boot_rom)
    /\ call.op = "run"
    /\ read(peripheral, 0) = rom_image(0)
    /\ read(peripheral, 0) # boot_rom_image(0)

\* C5: every echo address reads what the work RAM address 0x2000 below it reads,
\* and the byte just written to one of the two is read back at the other.
C5_EchoRamMirror ==
    /\ \A address \in ECHO_RAM_BEGIN .. ECHO_RAM_END :
          read(peripheral, address) = read(peripheral, address - 8192)
    /\ (call.op = "write" /\ call.arg[1] \in ECHO_RAM_BEGIN .. ECHO_RAM_END
          => read(peripheral, call.arg[1] - 8192) = call.arg[2])
    /\ (call.op = "write"
        /\ call.arg[1] \in WORKING_RAM_BEGIN .. (ECHO_RAM_END - 8192)
          => read(peripheral, call.arg[1] + 8192) = call.arg[2])

\* 0xAA was written to 0xFDFF and is read at 0xDDFF, 0x00 is still read at 0xE000
\* after a write to 0xC000
C5_Witness ==
    /\ call.op = "write"
    /\ call.arg = <<65023, 170>>
    /\ read(peripheral, 56831) = 170
    /\ read(peripheral, 57344) = 0

(***************************************************************************)
(* Properties of the OAM DMA (SpecDma)                                     *)
(***************************************************************************)
\* the OAM bytes as an array
Oam(self) == [i \in 0 .. (OAM_SIZE - 1) |-> Gpu_read_oam(self.gpu, i)]

\* C6: when run() has been given exactly 160 machine cycles since a write of V
\* to 0xFF46, and neither the source range nor OAM was written meanwhile, OAM
\* holds the 160 bytes read from (V << 8).
C6_OamReflectsSourceAfter160Cycles ==
    (bus_obs.dma_written /\ bus_obs.clean /\ bus_obs.since = OAM_SIZE)
        => Oam(peripheral) = SourceRange(peripheral)

Min(a, b) == IF a <= b THEN a ELSE b

\* C7: a run(cycles) call made while a transfer is active copies the
\* min(cycles, 160 - offset) bytes at source + offset to OAM[offset..] and leaves
\* the other OAM bytes; the offset advances by that number, and in the call in
\* which it reaches 160 the transfer is no longer active and the offset is 0.  A call
\* made while no transfer is active changes neither OAM nor the DMA fields.
C7_DmaProgress ==
    [][call'.op = "run" =>
        LET self   == peripheral
            after  == peripheral'
            offset == self.dma_cycles
            copied == Min(call'.arg[1], OAM_SIZE - offset)
        IN  IF self.dma_enabled
            THEN /\ Oam(after) =
                      [i \in 0 .. (OAM_SIZE - 1) |->
                          IF offset <= i /\ i < offset + copied
                          THEN read(self, self.dma_start_adress + i)
                          ELSE Gpu_read_oam(self.gpu, i)]
                 /\ IF offset + copied = OAM_SIZE
                    THEN ~after.dma_enabled /\ after.dma_cycles = 0
                    ELSE after.dma_enabled /\ after.dma_cycles = offset + copied
            ELSE /\ Oam(after) = Oam(self)
                 /\ ~after.dma_enabled
                 /\ after.dma_cycles = self.dma_cycles
                 /\ after.dma_start_adress = self.dma_start_adress]_vars

\* a run(24) ended a transfer from 0xC000: 0xAA and 0xFF have reached OAM
C7_Witness ==
    /\ call.op = "run"
    /\ call.arg = <<24>>
    /\ bus_obs.dma_written
    /\ ~peripheral.dma_enabled
    /\ peripheral.dma_cycles = 0
    /\ Gpu_read_oam(peripheral.gpu, 0) = 170
    /\ Gpu_read_oam(peripheral.gpu, OAM_SIZE - 1) = 255

(***************************************************************************)
(* Properties of the frame loop (SpecEmulator)                             *)
(***************************************************************************)
NextState(state) ==
    CASE state = "GetTime"       -> "RunMachine"
      [] state = "RunMachine"    -> "WaitNextFrame"
      [] state = "WaitNextFrame" -> "DisplayFrame"
      [] state = "DisplayFrame"  -> "GetTime"

\* C8: the emulator starts in GetTime; a call either leaves the state or moves it
\* to the next state of GetTime -> RunMachine -> WaitNextFrame -> DisplayFrame ->
\* GetTime; a call in GetTime or DisplayFrame always moves it.
C8_FrameLoopOrder ==
    /\ emulator.state = "GetTime"
    /\ [][/\ emulator'.state \in {emulator.state, NextState(emulator.state)}
          /\ (emulator.state \in {"GetTime", "DisplayFrame"}
                => emulator'.state = NextState(emulator.state))]_vars

\* back in GetTime after a whole frame
C8_Witness ==
    /\ emulator.state = "GetTime"
    /\ call.op = "Emulator::run"
    /\ call.arg[1] = "DisplayFrame"
    /\ frame_obs.last_display # NEVER

\* C9: ONE_FRAME_IN_NS is 16 742 706; a call in WaitNextFrame moves to
\* DisplayFrame when the clock reads at least ONE_FRAME_IN_NS past frame_tick, and
\* otherwise leaves the emulator as it is; two consecutive entries into
\* DisplayFrame are at least ONE_FRAME_IN_NS apart on the clock.
C9_FramePacing ==
    /\ ONE_FRAME_IN_NS = 16742706
    /\ [][emulator.state = "WaitNextFrame" =>
            IF clock' - emulator.frame_tick >= ONE_FRAME_IN_NS
            THEN emulator' = [emulator EXCEPT !.state = "DisplayFrame"]
            ELSE emulator' = emulator]_vars
    /\ [](frame_obs.prev_display # NEVER =>
            frame_obs.last_display - frame_obs.prev_display >= ONE_FRAME_IN_NS)

\* the second frame is displayed exactly one frame period after the first
C9_Witness ==
    /\ emulator.state = "DisplayFrame"
    /\ frame_obs.prev_display # NEVER
    /\ frame_obs.last_display = clock
    /\ frame_obs.last_display - frame_obs.prev_display = ONE_FRAME_IN_NS

\* C10: a call in RunMachine takes one Soc::run result; while the accumulated
\* count stays below 70224 it is the new frame counter and the state stays
\* RunMachine; the call in which it reaches 70224 moves to WaitNextFrame; so the
\* cycles run in a frame that has left RunMachine are at least 70224.
C10_RunMachineBudget ==
    /\ [][emulator.state = "RunMachine" =>
            LET total == emulator.cycles_elapsed_in_frame + call'.arg[2]
            IN  /\ call'.arg[2] \in SocCycles
                /\ frame_obs'.frame_cycles = frame_obs.frame_cycles + call'.arg[2]
                /\ IF total >= ONE_FRAME_IN_CYCLES
                   THEN emulator'.state = "WaitNextFrame"
                   ELSE /\ emulator'.state = "RunMachine"
                        /\ emulator'.cycles_elapsed_in_frame = total]_vars
    /\ [](emulator.state = "RunMachine"
            => frame_obs.frame_cycles = emulator.cycles_elapsed_in_frame)
    /\ [](emulator.state \in {"WaitNextFrame", "DisplayFrame"}
            => frame_obs.frame_cycles >= ONE_FRAME_IN_CYCLES)

\* the last instruction of the frame took the count from 70212 to 70236
C10_Witness ==
    /\ emulator.state = "WaitNextFrame"
    /\ call.op = "Emulator::run"
    /\ call.arg = <<"RunMachine", 24>>
    /\ frame_obs.frame_cycles = ONE_FRAME_IN_CYCLES + 12


(***************************************************************************)
(* Properties of the I/O registers (SpecIo)                                *)
(***************************************************************************)
\* the registers listed as implemented: P1, DIV, TIMA, TMA, TAC, IF, LCDC, STAT,
\* SCY, SCX, LY, LYC, DMA, BGP, OBP0, OBP1, WY, WX, BOOT
ImplementedRegisters ==
    {65280} \cup (65284 .. 65287) \cup {65295} \cup (65344 .. 65355) \cup {65360}

\* the sound range 0xFF10 ..= 0xFF3F and KEY1 0xFF4D
StubbedRegisters == (65296 .. 65343) \cup {65357}

\* the I/O addresses that are neither implemented nor stubbed nor serial
UnknownRegisters ==
    (IO_REGISTERS_BEGIN .. IO_REGISTERS_END)
        \ (ImplementedRegisters \cup StubbedRegisters \cup {65281, 65282})

\* C11: address totality.  Every bus read returns a byte and every bus write
\* completes: no access of the 16-bit address space ends in a panic.
C11_AddressTotality ==
    call.op \in {"read", "write"} => ~peripheral.panicked

\* C12: every register listed as implemented is handled for read and for
\* write: no access at one of these addresses reaches the unknown-register
\* panic.
C12_ImplementedRegistersHandled ==
    (call.op \in {"read", "write"} /\ call.arg[1] \in ImplementedRegisters)
        => ~peripheral.panicked

\* C13: stubbed registers.  A read of a sound register or of KEY1 returns 0xFF
\* and a write to one completes and changes no bus state.
C13_StubbedRegisters ==
    [][/\ (call'.op = "read" /\ call'.arg[1] \in StubbedRegisters)
            => (call'.ret = 255 /\ peripheral' = peripheral)
       /\ (call'.op = "write" /\ call'.arg[1] \in StubbedRegisters)
            => (peripheral' = peripheral
                /\ read(peripheral', call'.arg[1]) = 255)]_vars

\* C14: an access of an unknown I/O register panics, the failing access changes
\* nothing else, and an I/O address fails on read exactly when it fails on
\* write.
C14_UnknownRegisterIsLoud ==
    [][(/\ call'.op \in {"read", "write"}
        /\ call'.arg[1] \in IO_REGISTERS_BEGIN .. IO_REGISTERS_END)
          => LET address == call'.arg[1]
             IN  /\ address \in UnknownRegisters => peripheral'.panicked
                 /\ peripheral'.panicked
                      => peripheral' = [peripheral EXCEPT !.panicked = TRUE]
                 /\ (read(peripheral, address) = PANIC)
                      <=> (\A data \in IoData :
                              write(peripheral, address, data).panicked)]_vars


(***************************************************************************)
(* Properties of Peripheral::run (SpecRun)                                 *)
(***************************************************************************)
\* C15: Peripheral::run forwards the same cycle count exactly once to timer,
\* DMA, GPU and cartridge, in this order: OAM is untouched when the timer has
\* run, what the timer raised is on the NVIC when the DMA copies, every DMA
\* byte of the call is in OAM when the GPU runs, and the cartridge runs last.
C15_RunOrder ==
    (call.op = "run" /\ ~peripheral.panicked) =>
        LET ran == bus_obs.ran
        IN  /\ Len(ran) = 4
            /\ <<ran[1].device, ran[2].device, ran[3].device, ran[4].device>>
                 = <<"timer", "dma", "gpu", "cartridge">>
            /\ \A k \in 1 .. 4 : ran[k].cycles = call.arg[1]
            /\ ran[1].oam_old
            /\ ran[2].flag = ran[1].flag
            /\ ran[2].oam_new /\ ran[3].oam_new /\ ran[4].oam_new
            /\ ran[4].flag = peripheral.nvic.interrupt_flag

\* a run during which the timer raised TIMER, the DMA changed OAM and the GPU
\* raised VBLANK
C15_Witness ==
    /\ call.op = "run"
    /\ ~peripheral.panicked
    /\ Len(bus_obs.ran) = 4
    /\ Bit(bus_obs.ran[1].flag, 2) = 1
    /\ Bit(bus_obs.ran[2].flag, 0) = 0
    /\ Bit(bus_obs.ran[3].flag, 0) = 1
    /\ bus_obs.ran[1].oam_old
    /\ ~bus_obs.ran[1].oam_new


(***************************************************************************)
(* Properties of the debugger (SpecDebug)                                  *)
(***************************************************************************)
\* C16: the debugger command queue is FIFO.  A call of run_debug_mode that
\* consumes a command consumes the one posted first among those waiting, one
\* command per call.
C16_CommandQueueIsFifo ==
    dbg_obs.popped # "NoPop" => dbg_obs.popped = dbg_obs.expected


(***************************************************************************)
(* Properties of the IE byte and of the NVIC bit operations (SpecNvic)     *)
(***************************************************************************)
\* C17: IE high bits.  After from_byte(d), to_byte() returns 0xE0 | d, and in
\* every state the byte read from IE has bits 7..5 set and the low five bits
\* of interrupt_enable.
C17_IeHighBits ==
    LET byte == to_byte(peripheral.nvic)
    IN  /\ byte \in 0 .. 255
        /\ byte \div 32 = 7
        /\ byte % 32 = peripheral.nvic.interrupt_enable % 32
        /\ call.op = "from_byte" => byte = 224 + (call.arg[1] % 32)

\* from_byte(0x0C) was called and IE reads 0xEC
C17_Witness ==
    /\ call.op = "from_byte"
    /\ call.arg[1] = 12
    /\ to_byte(peripheral.nvic) = 236

\* the bits 0..7 of a byte other than bit i
OtherBits(byte, i) == [j \in (0 .. 7) \ {i} |-> Bit(byte, j)]

\* C20: NVIC bit operations touch one bit only.  set_interrupt(s) sets bit s of
\* IF and changes nothing else; enable_interrupt(s, e) sets or clears bit s of
\* IE and changes nothing else; doing either a second time changes nothing.
C20_OneBitOnly ==
    [][LET before == peripheral.nvic
           after  == peripheral'.nvic
           i      == SourceAsU8(call'.arg[1])
       IN  /\ call'.op = "set_interrupt" =>
                /\ Bit(after.interrupt_flag, i) = 1
                /\ OtherBits(after.interrupt_flag, i) = OtherBits(before.interrupt_flag, i)
                /\ after.interrupt_enable = before.interrupt_enable
                /\ after.interrupt_master_enable = before.interrupt_master_enable
                /\ set_interrupt(after, call'.arg[1]) = after
           /\ call'.op = "enable_interrupt" =>
                /\ Bit(after.interrupt_enable, i) = (IF call'.arg[2] THEN 1 ELSE 0)
                /\ OtherBits(after.interrupt_enable, i) = OtherBits(before.interrupt_enable, i)
                /\ after.interrupt_flag = before.interrupt_flag
                /\ after.interrupt_master_enable = before.interrupt_master_enable
                /\ enable_interrupt(after, call'.arg[1], call'.arg[2]) = after]_vars

\* VBLANK and JOYPAD are enabled and STAT has just been disabled: IE is 0x11
C20_Witness ==
    /\ call.op = "enable_interrupt"
    /\ call.arg = <<"STAT", FALSE>>
    /\ peripheral.nvic.interrupt_enable = 17


(***************************************************************************)
(* Properties of the frame cycle counter (SpecEmulator)                    *)
(***************************************************************************)
\* C19 as claimed: cycles_elapsed_in_frame keeps the accumulated value
\* (>= 70224) that ended RunMachine throughout WaitNextFrame and DisplayFrame,
\* and becomes 0 when DisplayFrame advances to GetTime.
C19_CounterResetByDisplayFrame ==
    /\ emulator.state \in {"WaitNextFrame", "DisplayFrame"} =>
          /\ emulator.cycles_elapsed_in_frame >= ONE_FRAME_IN_CYCLES
          /\ emulator.cycles_elapsed_in_frame = frame_obs.frame_cycles
    /\ (call.op = "Emulator::run" /\ call.arg[1] = "DisplayFrame") =>
          emulator.cycles_elapsed_in_frame = 0

\* C19 amended: the per-frame cycle counter is reset by the RunMachine step
\* that ends the frame.  The call of step that brings the accumulated value to
\* 70224 or more sets the counter to 0 as it advances to WaitNextFrame; the
\* counter is 0 throughout WaitNextFrame and DisplayFrame, and DisplayFrame
\* advances to GetTime without changing it.
C19_CounterResetByStep ==
    /\ [][(emulator.state = "RunMachine" /\ emulator'.state = "WaitNextFrame") =>
            /\ emulator.cycles_elapsed_in_frame + call'.arg[2] >= ONE_FRAME_IN_CYCLES
            /\ frame_obs'.frame_cycles >= ONE_FRAME_IN_CYCLES
            /\ emulator'.cycles_elapsed_in_frame = 0]_vars
    /\ [](emulator.state \in {"WaitNextFrame", "DisplayFrame"} =>
            emulator.cycles_elapsed_in_frame = 0)
    /\ [][emulator.state = "DisplayFrame" =>
            /\ emulator'.state = "GetTime"
            /\ emulator'.cycles_elapsed_in_frame = emulator.cycles_elapsed_in_frame]_vars

\* DisplayFrame has just advanced to GetTime at the end of a frame of 70224
\* cycles or more, and the counter is 0
C19_Witness ==
    /\ call.op = "Emulator::run"
    /\ call.arg[1] = "DisplayFrame"
    /\ emulator.state = "GetTime"
    /\ emulator.cycles_elapsed_in_frame = 0
    /\ frame_obs.frame_cycles >= ONE_FRAME_IN_CYCLES


(***************************************************************************)
(* Properties of work RAM and zero page (SpecRam)                          *)
(***************************************************************************)
\* the cells of a byte array other than `index` (index NEVER: all cells)
OtherCells(array, domain, index, reset) ==
    [i \in domain \ {index} |-> ArrayRead(array, i, reset)]

\* the working_ram (zero_page) index a bus write lands on, or NEVER
WorkingRamIndex(address) ==
    CASE address \in WORKING_RAM_BEGIN .. WORKING_RAM_END -> address - WORKING_RAM_BEGIN
      [] address \in ECHO_RAM_BEGIN .. ECHO_RAM_END -> address - ECHO_RAM_BEGIN
      [] OTHER -> NEVER

ZeroPageIndex(address) ==
    IF address \in ZERO_PAGE_BEGIN .. ZERO_PAGE_END
    THEN address - ZERO_PAGE_BEGIN
    ELSE NEVER

\* C18: RAM round-trip.  Every work RAM or zero page address reads the value
\* last written to it (directly or through its echo alias), whatever other
\* writes and run calls came in between; a bus write changes no other work RAM
\* or zero page byte, and run changes none.
C18_RamRoundTrip ==
    /\ [](\A a \in DOMAIN bus_obs.shadow : read(peripheral, a) = bus_obs.shadow[a])
    /\ [](call.op = "read" /\ call.arg[1] \in DOMAIN bus_obs.shadow
            => call.ret = bus_obs.shadow[call.arg[1]])
    /\ [][LET ram == (DOMAIN peripheral.working_ram) \cup (DOMAIN peripheral'.working_ram)
              zp  == (DOMAIN peripheral.zero_page) \cup (DOMAIN peripheral'.zero_page)
          IN  /\ call'.op = "write" =>
                   /\ OtherCells(peripheral'.working_ram, ram,
                                 WorkingRamIndex(call'.arg[1]), RAM_RESET)
                        = OtherCells(peripheral.working_ram, ram,
                                     WorkingRamIndex(call'.arg[1]), RAM_RESET)
                   /\ OtherCells(peripheral'.zero_page, zp,
                                 ZeroPageIndex(call'.arg[1]), RAM_RESET)
                        = OtherCells(peripheral.zero_page, zp,
                                     ZeroPageIndex(call'.arg[1]), RAM_RESET)
              /\ call'.op = "run" =>
                   /\ peripheral'.working_ram = peripheral.working_ram
                   /\ peripheral'.zero_page = peripheral.zero_page]_vars

\* 0xC000 reads the 0x55 written to it after a DMA transfer has copied that
\* byte to OAM and while 0xDFFF and 0xFF80 hold 0xAA
C18_Witness ==
    /\ call.op = "read"
    /\ call.arg[1] = 49152
    /\ call.ret = 85
    /\ Gpu_read_oam(peripheral.gpu, 0) = 85
    /\ ~peripheral.dma_enabled
    /\ read(peripheral, 57343) = 170
    /\ read(peripheral, 65408) = 170


(***************************************************************************)
(* Properties of the debugger (SpecLoop, SpecBreak)                        *)
(***************************************************************************)
\* a step that is a run_debug_mode call made in RunMachine with the debugger in
\* `state`
DebugCallIn(state) ==
    /\ call'.op = "run_debug_mode"
    /\ call'.arg = <<"RunMachine", state>>
    /\ dbg_ctx.debugger_state = state
    /\ emulator.state = "RunMachine"

C23_HaltFreezesTheMachine ==
    /\ [](dbg_ctx.debugger_state = "HALT" /\ emulator.state = "RunMachine"
            => ~frame_ready(emulator))
    /\ [][/\ DebugCallIn("HALT") =>
                /\ ~dbg_obs'.soc_ran
                /\ emulator' = emulator
                /\ peripheral' = peripheral
                /\ call'.ret = "RUN" => dbg_ctx'.debugger_state = "RUN"
                /\ call'.ret = "STEP" => dbg_ctx'.debugger_state = "STEP"
                /\ call'.ret \in {"HALT", "None"} => dbg_ctx'.debugger_state = "HALT"
                /\ call'.ret = "HALT" => Len(dbg_ctx'.cmd) = Len(dbg_ctx.cmd) - 1
          /\ (dbg_ctx.debugger_state = "HALT" /\ dbg_ctx'.debugger_state # "HALT") =>
                (DebugCallIn("HALT") /\ call'.ret \in {"RUN", "STEP"})
          /\ (/\ dbg_ctx.debugger_state = "HALT"
              /\ emulator.state = "RunMachine"
              /\ ~(call'.op = "run_debug_mode" /\ call'.ret \in {"RUN", "STEP"})) =>
                /\ emulator' = emulator
                /\ dbg_ctx'.debugger_state = "HALT"]_vars

\* a HALT command has just been popped and discarded in HALT, in the middle of
\* a frame
C23_Witness ==
    /\ call.op = "run_debug_mode"
    /\ call.arg = <<"RunMachine", "HALT">>
    /\ call.ret = "HALT"
    /\ dbg_ctx.debugger_state = "HALT"
    /\ emulator.state = "RunMachine"
    /\ emulator.cycles_elapsed_in_frame > 0


\* C22: breakpoint.  A run_debug_mode call made in RunMachine with the debugger
\* in RUN and break_enabled set, whose Soc::run leaves cpu.pc at the breakpoint
\* address, ends with the debugger in HALT, whatever command it pops; no Soc::run
\* is executed while the debugger is in HALT, which it leaves only by popping RUN
\* or STEP; with break_enabled false a RUN call goes to HALT only by popping a
\* HALT command.
C22_Breakpoint ==
    [][/\ (/\ DebugCallIn("RUN")
           /\ dbg_ctx.break_enabled
           /\ dbg_obs'.pc = dbg_ctx.breakpoint) =>
             /\ dbg_obs'.soc_ran
             /\ dbg_ctx'.debugger_state = "HALT"
             /\ dbg_ctx'.display_cpu_reg
       /\ (dbg_ctx.debugger_state = "HALT" /\ call'.op = "run_debug_mode") =>
             /\ ~dbg_obs'.soc_ran
             /\ dbg_ctx'.debugger_state # "HALT" => call'.ret \in {"RUN", "STEP"}
       /\ (dbg_ctx.debugger_state = "HALT" /\ call'.op = "debug_cli") =>
             dbg_ctx'.debugger_state = "HALT"
       /\ (/\ DebugCallIn("RUN")
           /\ ~dbg_ctx.break_enabled
           /\ call'.ret # "HALT") =>
             dbg_ctx'.debugger_state = "RUN"
       /\ (/\ DebugCallIn("RUN")
           /\ dbg_obs'.pc # dbg_ctx.breakpoint
           /\ call'.ret # "HALT") =>
             dbg_ctx'.debugger_state = "RUN"]_vars

\* the second instruction run in RUN has left pc at the enabled breakpoint
\* 0x0100 while a RUN command was popped and dropped: the debugger is in HALT
C22_Witness ==
    /\ call.op = "run_debug_mode"
    /\ call.arg = <<"RunMachine", "RUN">>
    /\ call.ret = "RUN"
    /\ dbg_ctx.break_enabled
    /\ dbg_ctx.breakpoint = 256
    /\ dbg_obs.pc = 256
    /\ emulator.cycles_elapsed_in_frame = 40
    /\ dbg_ctx.debugger_state = "HALT"

\* pc is at the address of a disabled breakpoint and the debugger keeps running
C22_WitnessDisabled ==
    /\ call.op = "run_debug_mode"
    /\ call.arg = <<"RunMachine", "RUN">>
    /\ ~dbg_ctx.break_enabled
    /\ dbg_ctx.breakpoint = 256
    /\ dbg_obs.pc = 256
    /\ dbg_ctx.debugger_state = "RUN"


\* the debugger is in RUN with an empty command queue and breakpoints disabled
FreeRunning(ctx) ==
    /\ ctx.debugger_state = "RUN"
    /\ ctx.cmd = <<>>
    /\ ~ctx.break_enabled

\* C24: debug RUN mode refines normal mode.  Every run_debug_mode call made with
\* the debugger in RUN, an empty command queue and breakpoints disabled changes
\* the emulator (state, frame counter, frame_tick) exactly as run_normal_mode does
\* from the same emulator with the same clock reading and the same Soc::run
\* result, calls Soc::run exactly when run_normal_mode does (in RunMachine), and
\* leaves the debugger in RUN with an empty queue and breakpoints disabled, so
\* the two modes go through the same sequence of states, counter values and
\* Soc::run calls.
C24_DebugRunRefinesNormal ==
    [][(call'.op = "run_debug_mode" /\ FreeRunning(dbg_ctx)) =>
          /\ emulator' = run_normal_mode(emulator, clock', dbg_obs'.cycles)
          /\ dbg_obs'.soc_ran <=> emulator.state = "RunMachine"
          /\ emulator.state = "RunMachine" => dbg_obs'.cycles \in {soc.cycles : soc \in DebugSoc}
          /\ FreeRunning(dbg_ctx')]_vars

\* a free-running debug call has just ended the second frame: the last Soc::run
\* brought the counter past 70224, the counter is 0 and the state WaitNextFrame
C24_Witness ==
    /\ call.op = "run_debug_mode"
    /\ call.arg = <<"RunMachine", "RUN">>
    /\ FreeRunning(dbg_ctx)
    /\ dbg_obs.soc_ran
    /\ emulator.state = "WaitNextFrame"
    /\ emulator.cycles_elapsed_in_frame = 0
    /\ emulator.frame_tick = ONE_FRAME_IN_NS


(***************************************************************************)
(* Properties of the frame loop polled for ever (SpecLive)                 *)
(***************************************************************************)
\* C25: frame liveness in normal mode.  When every Soc::run returns at least one
\* cycle and every clock reading is later than the one before, repeated
\* Emulator::run calls reach DisplayFrame again and again.  RunMachine is entered
\* with the counter at 0, every call made in RunMachine either leaves RunMachine
\* or raises the counter by at least 1 and keeps it below 70224, so RunMachine is
\* left after at most 70224 calls.
C25_FrameLiveness ==
    /\ []<>frame_ready(emulator)
    /\ [](emulator.state = "GetTime" => emulator.cycles_elapsed_in_frame = 0)
    /\ [](emulator.state = "RunMachine" =>
            emulator.cycles_elapsed_in_frame \in 0 .. (ONE_FRAME_IN_CYCLES - 1))
    /\ [][emulator.state = "RunMachine" =>
            \/ emulator'.state = "WaitNextFrame"
            \/ /\ emulator'.state = "RunMachine"
               /\ emulator'.cycles_elapsed_in_frame >= emulator.cycles_elapsed_in_frame + 1]_vars

\* a frame is displayed after the clock was read one nanosecond too early
C25_Witness ==
    /\ frame_ready(emulator)
    /\ clock = 2 * ONE_FRAME_IN_NS - 2
    /\ call.arg = <<"WaitNextFrame", 0>>


(***************************************************************************)
(* The frame counter between calls (SpecEmulator, SpecDebug)               *)
(***************************************************************************)
\* the counter is below 70224, and 0 outside RunMachine
FrameCounterInRange ==
    /\ emulator.cycles_elapsed_in_frame \in 0 .. (ONE_FRAME_IN_CYCLES - 1)
    /\ emulator.state # "RunMachine" => emulator.cycles_elapsed_in_frame = 0

\* C26: frame counter invariant.  Between Emulator::run calls the counter is
\* below 70224 and is 0 whenever the state is not RunMachine; the call whose
\* Soc::run brings the sum to 70224 or more sets the counter to 0, whatever the
\* overshoot, and in RunMachine the counter is the sum of the cycles returned
\* since the GetTime of this frame, so nothing is carried over from the frame
\* before.
C26_FrameCounterInvariant ==
    /\ []FrameCounterInRange
    /\ [](emulator.state = "RunMachine"
            => emulator.cycles_elapsed_in_frame = frame_obs.frame_cycles)
    /\ [][/\ (/\ emulator.state = "RunMachine"
              /\ emulator.cycles_elapsed_in_frame + call'.arg[2] >= ONE_FRAME_IN_CYCLES) =>
                /\ emulator'.cycles_elapsed_in_frame = 0
                /\ emulator'.state = "WaitNextFrame"
          /\ emulator.state = "GetTime" =>
                /\ emulator'.state = "RunMachine"
                /\ emulator'.cycles_elapsed_in_frame = 0
                /\ frame_obs'.frame_cycles = 0]_vars

\* the frame on display ran 70236 cycles, 12 more than a frame, and the counter
\* is 0
C26_Witness ==
    /\ emulator.state = "DisplayFrame"
    /\ frame_obs.frame_cycles = ONE_FRAME_IN_CYCLES + 12
    /\ emulator.cycles_elapsed_in_frame = 0

\* the same in debug mode: the frame ended by a free-running debug call ran
\* 70240 cycles
C26_WitnessDebug ==
    /\ emulator.state = "WaitNextFrame"
    /\ call.op = "run_debug_mode"
    /\ dbg_obs.cycles = 20
    /\ emulator.cycles_elapsed_in_frame = 0
    /\ ONE_FRAME_IN_CYCLES % 20 # 0


(***************************************************************************)
(* Bounds of the DMA engine (SpecPage)                                     *)
(***************************************************************************)
\* the most machine cycles one Soc::run gives to Peripheral::run
MaxRunCycles == 24

\* C27: DMA bounds.  Whatever 0xFF46 writes and run(c) calls with 1 <= c <= 24
\* were made, the u8 offset counter is below 160 while a transfer is active and
\* 0 while none is, so neither dma_cycles + mem_index nor dma_cycles += c can
\* pass 255; the last source address of an active transfer, (V << 8) + 159, is at
\* most 0xFFFF; OAM holds no index outside 0..159; a run aborts only on a read
\* of the I/O page, never on an overflow.
C27_DmaBounds ==
    /\ [](peripheral.dma_cycles \in 0 .. 255)
    /\ [](peripheral.dma_enabled => peripheral.dma_cycles < OAM_SIZE)
    /\ [](~peripheral.dma_enabled => peripheral.dma_cycles = 0)
    /\ [](\A c \in 1 .. MaxRunCycles : U8Add(peripheral.dma_cycles, c, TRUE) # PANIC)
    /\ [](peripheral.dma_enabled =>
            peripheral.dma_start_adress + (OAM_SIZE - 1) <= 65535)
    /\ [](DOMAIN peripheral.gpu.oam \subseteq 0 .. (OAM_SIZE - 1))
    /\ [][(call'.op = "run" /\ peripheral'.panicked) =>
            /\ peripheral.dma_enabled
            /\ peripheral.dma_start_adress = 65280]_vars

\* run(24) has just ended, at offset 156, a transfer restarted from page 0xFF:
\* it read 0xFF9C..0xFF9F, wrote OAM[156..159] and nothing at index 160, although
\* 0xC0A0 holds 0xAA
C27_Witness ==
    /\ call.op = "run"
    /\ call.arg = <<24>>
    /\ ~peripheral.panicked
    /\ ~peripheral.dma_enabled
    /\ peripheral.dma_cycles = 0
    /\ peripheral.dma_start_adress = 65280
    /\ Gpu_read_oam(peripheral.gpu, 155) = 255
    /\ Gpu_read_oam(peripheral.gpu, 159) = 255
    /\ read(peripheral, 49312) = 170


(***************************************************************************)
(* Pending and take (SpecNvic)                                             *)
(***************************************************************************)
\* C28: NVIC pending/take agreement.  After any sequence of master_enable,
\* enable_interrupt, from_byte, set_interrupt and get_interrupt calls,
\* is_an_interrupt_pending() is true exactly when a get_interrupt() called now
\* returns Some source, IF holds no bit above bit 4, and get_interrupt cannot
\* reach its panic arm; every get_interrupt call made returns Some exactly when
\* an interrupt was pending before it.
C28_PendingTakeAgreement ==
    /\ [](LET r == get_interrupt(peripheral.nvic)
          IN  /\ is_an_interrupt_pending(peripheral.nvic) <=> r.ret \in InterruptSources
              /\ r.ret \in InterruptSources \cup {"None"}
              /\ r.ret # "PANIC"
              /\ peripheral.nvic.interrupt_flag \in 0 .. 31)
    /\ [][call'.op = "get_interrupt" =>
            (call'.ret \in InterruptSources
               <=> is_an_interrupt_pending(peripheral.nvic))]_vars

\* IE = 0xE3 after from_byte, SERIAL flagged: nothing is pending and
\* get_interrupt has just returned None
C28_Witness ==
    /\ call.op = "get_interrupt"
    /\ call.ret = "None"
    /\ peripheral.nvic.interrupt_enable = 227
    /\ peripheral.nvic.interrupt_flag = 8
    /\ ~is_an_interrupt_pending(peripheral.nvic)

(***************************************************************************)
(* DMA from every page (SpecPage)                                          *)
(***************************************************************************)
\* C29: the DMA never aborts the step loop.  Whatever value was written to
\* 0xFF46, every Peripheral::run call returns without a fatal error.
C29_DmaNeverAborts ==
    call.op = "run" => ~peripheral.panicked

====
